---- MODULE Spec2Model ----
(***************************************************************************)
(* KVLite: the MVCC transaction layer (write_committed.rs), the sharded    *)
(* LRU cache (cache.rs), the single-writer skip list (mrsw_skipmap.rs) and *)
(* the level-0 compaction merge (level0_compact.rs), as state machines.    *)
(***************************************************************************)
EXTENDS Integers, Sequences, FiniteSets, TLC

(***************************************************************************)
(* Bounds of the model.                                                    *)
(***************************************************************************)
\* One run creates at most MaxOps snapshots, write batches and direct writes
\* together, so the sequencer issues at most MaxOps numbers.
MaxOps == 3
\* User keys are 1..NumUK, values 1..NumValues; the empty value is Tombstone.
NumUK == 2
NumValues == 1
\* At most MaxDirect of them are direct (non-transactional) writes.
MaxDirect == 2
\* ACTIVE_SIZE_THRESHOLD of the engine, scaled down.
FreezeThreshold == 2

\* CACHE_CAP (256) and TABLE_SIZE (256) of cache.rs, scaled down.
CACHE_CAP == 2
TABLE_SIZE == 2
\* Cache keys are 1..NumCacheKeys, cached values 1..NumCacheValues.
NumCacheKeys == 3
NumCacheValues == 2
\* Number of EntryTracker handles client threads hold at a time.
MaxTrackers == 2

\* LEVEL0_FILES_THRESHOLD of level0_compact.rs, at its value in the source.
LEVEL0_FILES_THRESHOLD == 4
\* Table keys are 1..NumCompactKeys; a compaction takes 1..MaxLevel0Tables
\* level-0 tables and 0..MaxLevel1Tables level-1 tables.
NumCompactKeys == 4
MaxLevel0Tables == 2
MaxLevel1Tables == 2

\* MAX_LEVEL of the skip list, scaled down: node levels are 0..MAX_LEVEL.
MAX_LEVEL == 1
\* Skip-list keys are 1..NumSkipKeys; the writer allocates at most
\* MaxSkipNodes nodes; NumReaders reader threads traverse the list.
NumSkipKeys == 2
MaxSkipNodes == 3
NumReaders == 2

\* Memtable keys are 1..NumMemKeys, the values set 1..NumMemValues.
NumMemKeys == 3
NumMemValues == 2
\* the entries of a batch merged into a memtable
MaxMergeLen == 2

\* Block max-keys and lookup targets of a table index are 1..NumIndexKeys.
NumIndexKeys == 5
\* the write batches of one run that are rolled back
MaxRolledBack == 1

UKeys == 1..NumUK
Values == 1..NumValues
Tombstone == 0
NoValue == -1
LSN_MIN == 0
\* Any number above every issued sequence number stands for LSN::MAX.
LSN_MAX == MaxOps + 1
Lsns == 1..MaxOps
AllLsns == LSN_MIN..LSN_MAX

VARIABLES
    \* ---- transaction layer (WriteCommittedDB) ----
    next_lsn,           \* AtomicU64
    num_lsn_acquired,   \* AtomicU64, held as an integer n: the cell is n mod 2^64
    handles,            \* the snapshots and write batches created so far, by lsn
    wal,                \* records appended to the write-ahead log, in order
    mut_mem_table,      \* the active memtable, ascending in LSNKey order
    frozen,             \* entries of the memtables frozen so far
    merge_log,          \* history: lsns of the batches merged, in merge order
    freeze_log,         \* history: handles outstanding at some freeze
    wal_order,          \* history: lsns of the batches logged, in WAL order
    direct_keys,        \* history: versioned keys written by direct writes
    num_direct,         \* history: direct writes done
    \* ---- one shard of the LRU cache (LRUCache) ----
    heap,               \* the LRUEntry at each address
    lru,                \* the recency list between head and tail, head side first
    table,              \* HashTable::table, each bucket's chain
    table_len,          \* HashTable::len
    trackers,           \* the EntryTracker handles of the client threads
    \* ---- level-0 compaction (compact_and_insert) ----
    level0_table_handles,   \* the level-0 input tables, oldest first
    level1_table_handles,   \* the level-1 input tables, in key order
    new_tables,             \* the tables handed to upsert_table_handle, in order
    compact_pc,             \* "ready", "done" or "panicked"
    manager_calls,          \* history: the calls made on the table managers
    \* ---- the skip list shared by one writer and its readers (MultiSkipMap) ----
    nodes,              \* the Node at each address
    cur_max_level,      \* AtomicUsize
    tail,               \* AtomicPtr
    skip_len,           \* MultiSkipMap::len
    writer,             \* the writer thread: its position in insert or remove
    readers,            \* the reader threads: their position in a traversal
    \* ---- the two memtables, given the same commands ----
    btree_inner,        \* BTreeMemTable::inner
    skipmap_inner,      \* SkipMapMemTable::inner, ascending in key order
    mem_latest,         \* history: per key, the value of the last set not
                        \* followed by a remove (NoValue if there is none)
    mem_ever_set,       \* history: the keys set so far
    last_remove,        \* history: the last remove and what it returned
    mem_call,           \* history: the last command and the entries it wrote
    \* ---- a table index and one lookup in it (SSTableIndex) ----
    indexes,            \* SSTableIndex::indexes, ascending in max key
    index_key,          \* the key looked up
    index_result,       \* what may_contain_key returned: <<>> for None,
                        \* <<offset, length>> for Some((offset, length))
    index_pc,           \* "ready" or "done"
    \* ---- the calls made on the cache through ShardLRUCache ----
    last_call,          \* history: the last call on the shard, its key, and
                        \* whether table.look_up found an entry for it
    \* ---- the calls made on the write batches ----
    batch_history       \* history: per batch, the value of its last set or
                        \* remove of each key since its start or its last
                        \* rollback, and whether it was ever rolled back

txnVars == <<next_lsn, num_lsn_acquired, handles, wal, mut_mem_table, frozen,
             merge_log, freeze_log, wal_order, direct_keys, num_direct>>

cacheVars == <<heap, lru, table, table_len, trackers>>

compactVars == <<level0_table_handles, level1_table_handles, new_tables, compact_pc,
                 manager_calls>>

skipVars == <<nodes, cur_max_level, tail, skip_len, writer, readers>>

memVars == <<btree_inner, skipmap_inner, mem_latest, mem_ever_set, last_remove,
             mem_call>>

indexVars == <<indexes, index_key, index_result, index_pc>>

callVars == <<last_call, batch_history>>

vars == <<txnVars, cacheVars, compactVars, skipVars, memVars, indexVars, callVars>>

(***************************************************************************)
(* Versioned keys and the ordered map holding them.                        *)
(***************************************************************************)
LSNKey(uk, lsn) == [uk |-> uk, lsn |-> lsn]

\* user key ascending, then sequence number descending
LSNKeyLt(a, b) == a.uk < b.uk \/ (a.uk = b.uk /\ a.lsn > b.lsn)

MinOf(S) == CHOOSE x \in S : \A y \in S : x <= y

\* index of the first entry whose key >= key, 0 when there is none
MapFindFirstGe(t, key) ==
    LET ge == {i \in 1..Len(t) : ~LSNKeyLt(t[i].key, key)}
    IN  IF ge = {} THEN 0 ELSE MinOf(ge)

\* unique map: an equal key has its value replaced in place
MapInsert(t, key, value) ==
    SelectSeq(t, LAMBDA e : LSNKeyLt(e.key, key))
        \o <<[key |-> key, value |-> value]>>
        \o SelectSeq(t, LAMBDA e : LSNKeyLt(key, e.key))

RECURSIVE MemTableMerge(_, _)
MemTableMerge(t, batch) ==
    IF batch = <<>> THEN t
    ELSE MemTableMerge(MapInsert(t, Head(batch).key, Head(batch).value), Tail(batch))

MapGet(t, key) ==
    LET i == MapFindFirstGe(t, key)
    IN  IF i # 0 /\ t[i].key = key THEN t[i].value ELSE NoValue

(***************************************************************************)
(* The engine under the transaction layer (NoTransactionDB).               *)
(***************************************************************************)
\* every entry the engine holds: the active memtable over the frozen ones
EngineTable == MemTableMerge(frozen, mut_mem_table)

\* the entry a read of key.uk at key.lsn lands on, <<>> when there is none
DB_query(key) ==
    LET t == EngineTable
        i == MapFindFirstGe(t, key)
    IN  IF i # 0 /\ t[i].key.uk = key.uk THEN <<t[i]>> ELSE <<>>

DB_get(key) ==
    LET r == DB_query(key)
    IN  IF r = <<>> \/ r[1].value = Tombstone THEN NoValue ELSE r[1].value

should_freeze(len) == len >= FreezeThreshold

(***************************************************************************)
(* WriteCommittedDB                                                        *)
(***************************************************************************)
\* the run may still create a snapshot, a write batch or a direct write
MayCreate == (next_lsn - 1) + num_direct < MaxOps

NoHandle == [kind |-> "none", pc |-> "none", table |-> <<>>, batch |-> <<>>]

Created == {h \in Lsns : handles[h].kind # "none"}
Outstanding == {h \in Created : handles[h].pc # "dropped"}
SnapShots == {h \in Created : handles[h].kind = "snapshot"}
WriteBatches == {h \in Created : handles[h].kind = "batch"}

InitTxn ==
    /\ next_lsn = 1
    /\ num_lsn_acquired = 0
    /\ handles = [h \in Lsns |-> NoHandle]
    /\ wal = <<>>
    /\ mut_mem_table = <<>>
    /\ frozen = <<>>
    /\ merge_log = <<>>
    /\ freeze_log = {}
    /\ wal_order = <<>>
    /\ direct_keys = {}
    /\ num_direct = 0

\* may_freeze, run by `self` (0: a direct write) holding the memtable guard
\* over table t: the memtable and the frozen entries afterwards
may_freeze_cond(t) == num_lsn_acquired = 0 /\ should_freeze(Len(t))

may_freeze(self, t) ==
    IF may_freeze_cond(t)
    THEN /\ mut_mem_table' = <<>>
         /\ frozen' = MemTableMerge(frozen, t)
         /\ freeze_log' = freeze_log \cup (Outstanding \ {self})
    ELSE /\ mut_mem_table' = t
         /\ UNCHANGED <<frozen, freeze_log>>

\* a variant of snapshot that loads next_lsn and leaves it as it is
snapshot_reusing_lsn ==
    /\ MayCreate
    /\ handles' = [handles EXCEPT ![next_lsn] =
                       [kind |-> "snapshot", pc |-> "open", table |-> <<>>, batch |-> <<>>]]
    /\ UNCHANGED <<next_lsn, num_lsn_acquired, wal, mut_mem_table, frozen, merge_log,
                   freeze_log, wal_order, direct_keys, num_direct>>

snapshot ==
    /\ MayCreate
    /\ handles' = [handles EXCEPT ![next_lsn] =
                       [kind |-> "snapshot", pc |-> "open", table |-> <<>>, batch |-> <<>>]]
    /\ next_lsn' = next_lsn + 1
    /\ UNCHANGED <<num_lsn_acquired, wal, mut_mem_table, frozen, merge_log,
                   freeze_log, wal_order, direct_keys, num_direct>>

start_transaction ==
    /\ MayCreate
    /\ handles' = [handles EXCEPT ![next_lsn] =
                       [kind |-> "batch", pc |-> "open", table |-> <<>>, batch |-> <<>>]]
    /\ next_lsn' = next_lsn + 1
    /\ UNCHANGED <<num_lsn_acquired, wal, mut_mem_table, frozen, merge_log,
                   freeze_log, wal_order, direct_keys, num_direct>>

\* variants of SnapShot_key that read at another sequence number
SnapShot_key_latest(s, uk) == LSNKey(uk, LSN_MAX)

SnapShot_key_next(s, uk) == LSNKey(uk, s + 1)

\* the versioned key a snapshot reads uk at (SnapShot::get, line 35)
SnapShot_key(s, uk) == LSNKey(uk, s)

SnapShot_get(s, uk) == DB_get(SnapShot_key(s, uk))

SnapShot_drop(s) ==
    /\ s \in SnapShots /\ handles[s].pc = "open"
    /\ num_lsn_acquired' = num_lsn_acquired - 1
    /\ handles' = [handles EXCEPT ![s].pc = "dropped"]
    /\ UNCHANGED <<next_lsn, wal, mut_mem_table, frozen, merge_log, freeze_log,
                   wal_order, direct_keys, num_direct>>

\* a get that goes to the engine without a look at the buffer
WriteBatch_get_unbuffered(b, uk) == DB_get(LSNKey(uk, b))

WriteBatch_get(b, uk) ==
    LET v == MapGet(handles[b].table, LSNKey(uk, b))
    IN  IF v # NoValue THEN v ELSE DB_get(LSNKey(uk, b))

\* variant of WriteBatch_insert that also stores into the active memtable
WriteBatch_insert_through(b, uk, value) ==
    /\ b \in WriteBatches /\ handles[b].pc = "open"
    /\ handles' = [handles EXCEPT ![b].table = MapInsert(@, LSNKey(uk, b), value)]
    /\ mut_mem_table' = MapInsert(mut_mem_table, LSNKey(uk, b), value)
    /\ UNCHANGED <<next_lsn, num_lsn_acquired, wal, frozen,
                   merge_log, freeze_log, wal_order, direct_keys, num_direct>>

WriteBatch_insert(b, uk, value) ==
    /\ b \in WriteBatches /\ handles[b].pc = "open"
    /\ handles' = [handles EXCEPT ![b].table = MapInsert(@, LSNKey(uk, b), value)]
    /\ UNCHANGED <<next_lsn, num_lsn_acquired, wal, mut_mem_table, frozen,
                   merge_log, freeze_log, wal_order, direct_keys, num_direct>>

WriteBatch_set(b, uk, value) == WriteBatch_insert(b, uk, value)

WriteBatch_remove(b, uk) == WriteBatch_insert(b, uk, Tombstone)

\* a rollback that leaves the buffer as it is
WriteBatch_rollback_keeping_buffer(b) ==
    /\ b \in WriteBatches /\ handles[b].pc = "open"
    /\ handles[b].table # <<>>
    /\ UNCHANGED txnVars

WriteBatch_rollback(b) ==
    /\ b \in WriteBatches /\ handles[b].pc = "open"
    /\ handles[b].table # <<>>
    /\ handles' = [handles EXCEPT ![b].table = <<>>]
    /\ UNCHANGED <<next_lsn, num_lsn_acquired, wal, mut_mem_table, frozen,
                   merge_log, freeze_log, wal_order, direct_keys, num_direct>>

\* Drop for WriteBatch, first part: the buffer is taken and, under the WAL
\* lock, every entry of it is appended in buffer order (write_batch, 208-213)
WriteBatch_drop_wal(b) ==
    /\ b \in WriteBatches /\ handles[b].pc = "open"
    /\ IF handles[b].table # <<>>
       THEN /\ wal' = wal \o handles[b].table
            /\ wal_order' = Append(wal_order, b)
            /\ handles' = [handles EXCEPT ![b].pc = "merge",
                                          ![b].batch = handles[b].table,
                                          ![b].table = <<>>]
       ELSE /\ UNCHANGED <<wal, wal_order>>
            /\ handles' = [handles EXCEPT ![b].pc = "release"]
    /\ UNCHANGED <<next_lsn, num_lsn_acquired, mut_mem_table, frozen, merge_log,
                   freeze_log, direct_keys, num_direct>>

\* a failed append that write_batch does not return on: the entries before
\* it are in the WAL and the batch goes on to the merge
WriteBatch_drop_wal_error_ignored(b, n) ==
    /\ b \in WriteBatches /\ handles[b].pc = "open"
    /\ n < Len(handles[b].table)
    /\ wal' = wal \o SubSeq(handles[b].table, 1, n)
    /\ handles' = [handles EXCEPT ![b].pc = "merge",
                                  ![b].batch = handles[b].table,
                                  ![b].table = <<>>]
    /\ UNCHANGED <<next_lsn, num_lsn_acquired, mut_mem_table, frozen, merge_log,
                   freeze_log, wal_order, direct_keys, num_direct>>

\* Drop for WriteBatch when the append of entry n + 1 of the buffer returns
\* an error: the n entries before it are in the WAL, `?` returns the error
\* from write_batch (line 211) before the merge, and the unwrap in drop
\* (line 111) panics, so that line 113 is not reached
WriteBatch_drop_wal_fails(b, n) ==
    /\ b \in WriteBatches /\ handles[b].pc = "open"
    /\ n < Len(handles[b].table)
    /\ wal' = wal \o SubSeq(handles[b].table, 1, n)
    /\ handles' = [handles EXCEPT ![b].pc = "panicked",
                                  ![b].batch = handles[b].table,
                                  ![b].table = <<>>]
    /\ UNCHANGED <<next_lsn, num_lsn_acquired, mut_mem_table, frozen, merge_log,
                   freeze_log, wal_order, direct_keys, num_direct>>

\* second part: under the memtable write lock the batch is merged, then
\* may_freeze runs with the guard (write_batch, 215-218)
WriteBatch_drop_merge(b) ==
    /\ b \in WriteBatches /\ handles[b].pc = "merge"
    /\ may_freeze(b, MemTableMerge(mut_mem_table, handles[b].batch))
    /\ merge_log' = Append(merge_log, b)
    /\ handles' = [handles EXCEPT ![b].pc = "release"]
    /\ UNCHANGED <<next_lsn, num_lsn_acquired, wal, wal_order, direct_keys,
                   num_direct>>

\* last part: num_lsn_acquired.fetch_sub(1) (line 113)
WriteBatch_drop_release(b) ==
    /\ b \in WriteBatches /\ handles[b].pc = "release"
    /\ num_lsn_acquired' = num_lsn_acquired - 1
    /\ handles' = [handles EXCEPT ![b].pc = "dropped"]
    /\ UNCHANGED <<next_lsn, wal, mut_mem_table, frozen, merge_log, freeze_log,
                   wal_order, direct_keys, num_direct>>

\* DB::set / DB::remove of WriteCommittedDB: the caller supplies the versioned
\* key; set_locked logs and stores it, then may_freeze runs with the guard
DB_write(key, value) ==
    /\ MayCreate /\ num_direct < MaxDirect
    /\ num_direct' = num_direct + 1
    /\ wal' = Append(wal, [key |-> key, value |-> value])
    /\ direct_keys' = direct_keys \cup {key}
    /\ may_freeze(0, MapInsert(mut_mem_table, key, value))
    /\ UNCHANGED <<next_lsn, num_lsn_acquired, handles, merge_log, wal_order>>

DB_set(key, value) == DB_write(key, value)

DB_remove(key) == DB_write(key, Tombstone)

\* ---- the write batches with their calls remembered ----
NoBatchHistory == [written |-> [uk \in UKeys |-> NoValue], rolled_back |-> FALSE]

WriteBatch_set_logged(b, uk, value) ==
    /\ WriteBatch_set(b, uk, value)
    /\ batch_history' = [batch_history EXCEPT ![b].written[uk] = value]

WriteBatch_remove_logged(b, uk) ==
    /\ WriteBatch_remove(b, uk)
    /\ batch_history' = [batch_history EXCEPT ![b].written[uk] = Tombstone]

WriteBatch_rollback_logged(b) ==
    /\ Cardinality({c \in Lsns \ {b} : batch_history[c].rolled_back}) < MaxRolledBack
    /\ WriteBatch_rollback(b)
    /\ batch_history' = [batch_history EXCEPT
                            ![b] = [NoBatchHistory EXCEPT !.rolled_back = TRUE]]

NextTxn ==
    \/ snapshot
    \/ start_transaction
    \/ \E s \in Lsns : SnapShot_drop(s)
    \/ \E b \in Lsns, uk \in UKeys, v \in Values : WriteBatch_set(b, uk, v)
    \/ \E b \in Lsns, uk \in UKeys : WriteBatch_remove(b, uk)
    \/ \E b \in Lsns : WriteBatch_rollback(b)
    \/ \E b \in Lsns : WriteBatch_drop_wal(b)
    \/ \E b \in Lsns : WriteBatch_drop_merge(b)
    \/ \E b \in Lsns : WriteBatch_drop_release(b)

\* the write batches alone, with the calls on them remembered
NextBatch ==
    \/ /\ \/ start_transaction
          \/ \E b \in Lsns : WriteBatch_drop_wal(b)
          \/ \E b \in Lsns : WriteBatch_drop_merge(b)
          \/ \E b \in Lsns : WriteBatch_drop_release(b)
       /\ UNCHANGED batch_history
    \/ \E b \in Lsns, uk \in UKeys, v \in Values : WriteBatch_set_logged(b, uk, v)
    \/ \E b \in Lsns, uk \in UKeys : WriteBatch_remove_logged(b, uk)
    \/ \E b \in Lsns : WriteBatch_rollback_logged(b)

\* the write batches over a WAL whose append may return an error
NextWal ==
    \/ start_transaction
    \/ \E b \in Lsns, uk \in UKeys, v \in Values : WriteBatch_set(b, uk, v)
    \/ \E b \in Lsns, uk \in UKeys : WriteBatch_remove(b, uk)
    \/ \E b \in Lsns : WriteBatch_drop_wal(b)
    \/ \E b \in Lsns, n \in 0..NumUK - 1 : WriteBatch_drop_wal_fails(b, n)
    \/ \E b \in Lsns : WriteBatch_drop_merge(b)
    \/ \E b \in Lsns : WriteBatch_drop_release(b)

\* the transaction layer with direct writes beside the transactions
NextDirect ==
    \/ NextTxn
    \/ \E uk \in UKeys, l \in AllLsns, v \in Values : DB_set(LSNKey(uk, l), v)
    \/ \E uk \in UKeys, l \in AllLsns : DB_remove(LSNKey(uk, l))


(***************************************************************************)
(* Properties of the transaction layer.                                    *)
(***************************************************************************)
Range(q) == {q[i] : i \in 1..Len(q)}

OpenSnapShots == {s \in SnapShots : handles[s].pc = "open"}
\* batches whose buffer has been merged into the memtable
Merged == {b \in WriteBatches : handles[b].pc \in {"release", "dropped"}
                                 /\ handles[b].batch # <<>>}

ReadOf(value) == IF value = Tombstone THEN NoValue ELSE value

\* the versions the engine holds, as a set
Held == Range(mut_mem_table)
            \cup {e \in Range(frozen) : \A m \in Range(mut_mem_table) : m.key # e.key}
VisibleVersions(uk, lsn) == {e \in Held : e.key.uk = uk /\ e.key.lsn <= lsn}
NewestVisible(uk, lsn) ==
    CHOOSE e \in VisibleVersions(uk, lsn) :
        \A f \in VisibleVersions(uk, lsn) : f.key.lsn <= e.key.lsn
ExpectedRead(uk, lsn) ==
    IF VisibleVersions(uk, lsn) = {} THEN NoValue
    ELSE ReadOf(NewestVisible(uk, lsn).value)

\* C1: once a write batch with sequence number b is committed, a snapshot with
\* a greater sequence number reads, for every key of the batch, the batch's
\* version or one that supersedes it (the batch's own value when it lands on
\* the batch's version), and a snapshot with a smaller sequence number never
\* lands on a version of the batch.
C1_SnapshotSeesCommittedBatch ==
    \A b \in Merged, s \in OpenSnapShots : \A i \in 1..Len(handles[b].batch) :
        LET e == handles[b].batch[i]
            r == DB_query(SnapShot_key(s, e.key.uk))
        IN  /\ s > b =>
                /\ r # <<>>
                /\ r[1].key.lsn >= b
                /\ (r[1].key.lsn = b /\ e.key \notin direct_keys)
                       => SnapShot_get(s, e.key.uk) = ReadOf(e.value)
            /\ s <= b => (r = <<>> \/ r[1].key.lsn < b)

\* a snapshot between two committed batches that wrote the same key reads the
\* older batch's value
C1_Witness ==
    \E s \in OpenSnapShots, b1 \in Merged, b2 \in Merged, uk \in UKeys :
        /\ b1 < s /\ s < b2
        /\ MapGet(handles[b1].batch, LSNKey(uk, b1)) = 1
        /\ MapGet(handles[b2].batch, LSNKey(uk, b2)) = Tombstone
        /\ SnapShot_get(s, uk) = 1
        /\ DB_get(LSNKey(uk, LSN_MAX)) = NoValue

\* C2: the memtable is never frozen while a snapshot or another write batch
\* is outstanding.
C2_NoFreezeWhileOutstanding == freeze_log = {}

\* C3: the write batches are merged into the memtable in the order in which
\* their records were appended to the WAL.
C3_WalOrderIsMergeOrder ==
    merge_log = SelectSeq(wal_order, LAMBDA b : b \in Range(merge_log))

\* C8: while a write batch is open its writes are in its buffer only: the WAL
\* holds no record of it, it has not been merged, and no read at any sequence
\* number lands on a version of it; once it is dropped every key of it is
\* readable at every sequence number from the batch's on, with the batch's
\* value at the batch's own number.
C8_BatchWritesArePrivateUntilDrop ==
    \A b \in WriteBatches :
        /\ handles[b].pc = "open" =>
            /\ b \notin Range(wal_order)
            /\ b \notin Range(merge_log)
            /\ \A uk \in UKeys, l \in AllLsns :
                   LET r == DB_query(LSNKey(uk, l))
                   IN  LSNKey(uk, b) \notin direct_keys
                           => (r = <<>> \/ r[1].key.lsn # b)
        /\ handles[b].pc = "dropped" =>
            \A l \in AllLsns : \A i \in 1..Len(handles[b].batch) :
                LET e == handles[b].batch[i]
                    r == DB_query(LSNKey(e.key.uk, l))
                IN  l >= b =>
                        /\ r # <<>> /\ r[1].key.lsn >= b
                        /\ (l = b /\ e.key \notin direct_keys)
                               => DB_get(LSNKey(e.key.uk, l)) = ReadOf(e.value)

\* a dropped batch whose value is read, and an open batch with a buffered
\* write that no read returns
C8_Witness ==
    \E b1 \in WriteBatches, b2 \in WriteBatches, uk \in UKeys :
        /\ handles[b1].pc = "dropped" /\ handles[b2].pc = "open"
        /\ MapGet(handles[b1].batch, LSNKey(uk, b1)) = Tombstone
        /\ MapGet(handles[b2].table, LSNKey(uk, b2)) = 1
        /\ WriteBatch_get(b2, uk) = 1
        /\ DB_get(LSNKey(uk, LSN_MAX)) = NoValue

\* C9: a read of user key uk at sequence number l returns the value of the
\* held version of uk with the greatest sequence number <= l (a tombstone
\* reads as no value) and no value when there is no such version; a snapshot
\* reads at its own sequence number.
C9_ReadNewestVersionAtOrBelow ==
    /\ \A uk \in UKeys, l \in AllLsns : DB_get(LSNKey(uk, l)) = ExpectedRead(uk, l)
    /\ \A uk \in UKeys, s \in OpenSnapShots : SnapShot_get(s, uk) = ExpectedRead(uk, s)

\* batch 1 wrote uk: a read at LSN::MIN returns nothing, a read at 1 the
\* value, a read at LSN::MAX the newer tombstone, which a snapshot skips
C9_Witness ==
    \E uk \in UKeys, s \in OpenSnapShots :
        /\ 1 \in Merged /\ MapGet(handles[1].batch, LSNKey(uk, 1)) = 1
        /\ DB_get(LSNKey(uk, 1)) = 1
        /\ DB_get(LSNKey(uk, LSN_MAX)) = NoValue
        /\ DB_get(LSNKey(uk, LSN_MIN)) = NoValue
        /\ \E e \in Held : e.key.uk = uk /\ e.key.lsn > s /\ e.value = Tombstone
        /\ SnapShot_get(s, uk) = 1

\* C10: a get through a snapshot returns the same result before and after
\* every step of the other threads.
C10_SnapshotReadsRepeat ==
    [][\A s \in Lsns, uk \in UKeys :
           (s \in OpenSnapShots /\ (s \in OpenSnapShots)')
               => SnapShot_get(s, uk)' = SnapShot_get(s, uk)]_vars

\* C11: num_lsn_acquired is the number of snapshots and write batches
\* created and not yet dropped, and never below 0.
C11_CounterIsNumberOutstanding ==
    /\ num_lsn_acquired = Cardinality(Outstanding)
    /\ num_lsn_acquired >= 0

\* the handles that come into being in a step
Acquired(h) == handles[h].pc # "open" /\ handles'[h].pc = "open"

\* C12: every snapshot and write batch gets a sequence number >= 1 that no
\* handle had before, above every number handed out before, and the next
\* acquisition gets a greater one.
C12_SequenceNumbersAreFresh ==
    [][\A h \in Lsns :
           Acquired(h) =>
               /\ h >= 1
               /\ handles[h] = NoHandle
               /\ h = next_lsn
               /\ \A g \in Created : g < h
               /\ next_lsn' > h]_vars

\* a snapshot and a later write batch exist, the snapshot already dropped
C12_Witness ==
    \E s \in SnapShots, b \in WriteBatches :
        /\ s < b
        /\ handles[s].pc = "dropped"
        /\ handles[b].pc = "open"

OpenBatches == {b \in WriteBatches : handles[b].pc = "open"}
Written(b, uk) == batch_history[b].written[uk]

\* C28: a get through an open write batch returns, for a key the batch has
\* set since its start or its last rollback, the value of its last set
\* (for a key it has removed since then, the empty value it buffered), and
\* for any other key what the engine reads for the key at the batch's
\* sequence number.
C28_BatchGetReadsBufferThenEngine ==
    \A b \in OpenBatches, uk \in UKeys :
        IF Written(b, uk) # NoValue
        THEN WriteBatch_get(b, uk) = Written(b, uk)
        ELSE WriteBatch_get(b, uk) = ExpectedRead(uk, b)
\* a batch rolled back and written again reads its own value for a key the
\* engine has nothing for, and the engine's value for a key it has not
\* written since the rollback
C28_Witness ==
    \E b \in OpenBatches, uk1 \in UKeys, uk2 \in UKeys :
        /\ batch_history[b].rolled_back
        /\ Written(b, uk1) \in Values
        /\ ExpectedRead(uk1, b) = NoValue
        /\ WriteBatch_get(b, uk1) = Written(b, uk1)
        /\ Written(b, uk2) = NoValue
        /\ ExpectedRead(uk2, b) \in Values
        /\ WriteBatch_get(b, uk2) = ExpectedRead(uk2, b)

\* the batch has been rolled back and has not set or removed a key since
RolledBackClean(b) ==
    /\ batch_history[b].rolled_back
    /\ \A uk \in UKeys : Written(b, uk) = NoValue
\* the step is a rollback of batch b
RollsBack(b) ==
    /\ batch_history'[b] # batch_history[b]
    /\ RolledBackClean(b)'
\* what the WAL and the engine hold
Logged == Range(wal) \cup Range(mut_mem_table) \cup Range(frozen)
EngineState == <<wal, wal_order, mut_mem_table, frozen, merge_log, freeze_log>>

\* C29: a rollback empties the buffer and touches neither the WAL nor the
\* engine; the drop of a batch that has not set or removed a key since its
\* rollback goes straight to the decrement of the counter: it appends
\* nothing to the WAL, merges nothing and freezes nothing; and of a batch
\* that was rolled back the WAL and the engine only ever hold what it set
\* or removed after its last rollback, so no read at any sequence number
\* lands on a rolled-back write.
C29_RolledBackWritesAreNeverCommitted ==
    /\ [](\A b \in Lsns :
            /\ RolledBackClean(b) =>
                  /\ handles[b].table = <<>>
                  /\ handles[b].pc # "merge"
                  /\ b \notin Range(wal_order)
                  /\ b \notin Range(merge_log)
            /\ batch_history[b].rolled_back =>
                  /\ \A e \in Logged :
                        e.key.lsn = b => e.value = Written(b, e.key.uk)
                  /\ \A uk \in UKeys, l \in AllLsns :
                        LET r == DB_query(LSNKey(uk, l))
                        IN  (r # <<>> /\ r[1].key.lsn = b)
                                => r[1].value = Written(b, uk))
    /\ [][\A b \in Lsns :
          /\ RollsBack(b) =>
                /\ handles'[b].table = <<>>
                /\ handles'[b].pc = "open"
                /\ UNCHANGED EngineState
          /\ (RolledBackClean(b) /\ handles[b].pc = "open" /\ handles'[b].pc # "open") =>
                /\ handles'[b].pc = "release"
                /\ UNCHANGED EngineState
          /\ (RolledBackClean(b) /\ handles[b].pc = "release" /\ handles'[b].pc # "release") =>
                /\ handles'[b].pc = "dropped"
                /\ UNCHANGED EngineState
         ]_vars
\* a batch that was rolled back and then dropped left nothing in the WAL
\* or the engine, beside a batch that did commit
C29_Witness ==
    \E b \in WriteBatches, c \in WriteBatches :
        /\ handles[b].pc = "dropped"
        /\ RolledBackClean(b)
        /\ b \notin Range(wal_order)
        /\ \A e \in Logged : e.key.lsn # b
        /\ handles[c].pc = "dropped"
        /\ c \in Range(merge_log)
\* a batch that was rolled back, written again and dropped is read with
\* what it wrote after the rollback
C29_RewrittenWitness ==
    \E b \in WriteBatches, uk \in UKeys :
        /\ handles[b].pc = "dropped"
        /\ batch_history[b].rolled_back
        /\ Written(b, uk) \in Values
        /\ DB_get(LSNKey(uk, b)) = Written(b, uk)

\* the step is the commit of batch b: its merge and the may_freeze after it
Commits(b) == handles[b].pc = "merge" /\ handles'[b].pc = "release"
\* the step is a direct set or remove
WritesDirect == num_direct' = num_direct + 1

\* C30: a commit of a write batch or a direct set/remove made while no
\* other snapshot or write batch is outstanding does not leave the active
\* memtable at or past the freeze threshold: it has frozen it.
C30_WriteFreezesWhenNothingElseOutstanding ==
    [][/\ \A b \in Lsns :
             (Commits(b) /\ Outstanding \ {b} = {})
                 => ~should_freeze(Len(mut_mem_table'))
       /\ (WritesDirect /\ Outstanding = {})
             => ~should_freeze(Len(mut_mem_table'))
      ]_vars
\* the same of the writes made while num_lsn_acquired is 0, which is
\* before any handle has been dropped
WriteFreezesWhileCounterIsZero ==
    [][/\ \A b \in Lsns :
             (Commits(b) /\ num_lsn_acquired = 0)
                 => ~should_freeze(Len(mut_mem_table'))
       /\ (WritesDirect /\ num_lsn_acquired = 0)
             => ~should_freeze(Len(mut_mem_table'))
      ]_vars
\* a write has frozen a memtable at the threshold
FreezeWitness ==
    /\ mut_mem_table = <<>>
    /\ Len(frozen) >= FreezeThreshold
    /\ num_lsn_acquired = 0

\* the records of batch b in the WAL, in WAL order
WalOf(b) == SelectSeq(wal, LAMBDA e : e.key.lsn = b)
\* the batches whose commit got past the WAL, and those whose append failed
Appended == {b \in WriteBatches : handles[b].pc \in {"merge", "release", "dropped"}
                                   /\ handles[b].batch # <<>>}
Panicked == {b \in WriteBatches : handles[b].pc = "panicked"}
InEngine(b) == {e \in Range(mut_mem_table) \cup Range(frozen) : e.key.lsn = b}
IsPrefix(s, t) == Len(s) <= Len(t) /\ s = SubSeq(t, 1, Len(s))
AscendingKeys(t) == \A i \in 1..Len(t) - 1 : LSNKeyLt(t[i].key, t[i + 1].key)

\* C31: a commit that gets to its merge has every entry of its buffer in
\* the WAL, in the ascending order of the buffer, and until the merge no
\* entry of the batch is in the memtable; the merge step itself appends
\* nothing; of a commit whose append failed the WAL holds the entries
\* before the failed one and the engine never holds any.
C31_WalBeforeMergeAndNoMergeOnError ==
    /\ [](\A b \in Lsns :
            /\ b \in Appended =>
                  /\ WalOf(b) = handles[b].batch
                  /\ AscendingKeys(handles[b].batch)
            /\ (b \in WriteBatches /\ handles[b].pc \in {"open", "merge"}) =>
                  InEngine(b) = {}
            /\ b \in Panicked =>
                  /\ IsPrefix(WalOf(b), handles[b].batch)
                  /\ WalOf(b) # handles[b].batch
                  /\ InEngine(b) = {}
                  /\ b \notin Range(merge_log))
    /\ [][\A b \in Lsns :
             (handles[b].pc = "merge" /\ handles'[b].pc # "merge") =>
                 /\ WalOf(b) = handles[b].batch
                 /\ wal' = wal
                 /\ \A e \in Range(handles[b].batch) :
                       e \in Range(mut_mem_table') \cup Range(frozen')
         ]_vars
\* one commit failed at its second append and left its first entry in the
\* WAL and nothing in the engine, another went through and is merged
C31_Witness ==
    \E b \in Panicked, c \in Appended :
        /\ Len(handles[b].batch) = 2
        /\ Len(WalOf(b)) = 1
        /\ InEngine(b) = {}
        /\ handles[c].pc = "dropped"
        /\ Len(handles[c].batch) = 2
        /\ InEngine(c) # {}

\* the step ends the WAL part of the drop of b with an append that failed
AppendFails(b) ==
    /\ handles[b].pc = "open"
    /\ handles'[b].pc # "open"
    /\ WalOf(b)' # handles'[b].batch

\* C32: a drop whose append to the WAL failed goes on, the error held as a
\* value, to its decrement of num_lsn_acquired, and makes it.
C32_AppendErrorIsReturnedAndCounterDecremented ==
    /\ [][\A b \in Lsns : AppendFails(b) => handles'[b].pc = "release"]_vars
    /\ [][\A b \in Lsns :
             (b \in Panicked /\ handles'[b].pc # "panicked")
                 => num_lsn_acquired' = num_lsn_acquired - 1]_vars
    /\ [](Panicked = {})

(***************************************************************************)
(* One shard of the LRU cache (cache.rs).  Addresses are 1..NumAddrs, 0 is *)
(* the null pointer.  Every operation of LRUCache runs under the shard's   *)
(* mutex (ShardLRUCache, lines 49-62) and is one step; an EntryTracker is  *)
(* dropped outside the lock, in the two steps of release.                  *)
(***************************************************************************)
CacheKeys == 1..NumCacheKeys
CacheValues == 1..NumCacheValues
\* an entry is resident or evicted and held by a tracker
NumAddrs == CACHE_CAP + MaxTrackers
Addrs == 1..NumAddrs
Trackers == 1..MaxTrackers
Buckets == 0..(TABLE_SIZE - 1)

\* the hash the callers pass with a key
HashOf(key) == key
BucketOf(hash) == hash % TABLE_SIZE

\* memory that is not allocated
FreeMem == [live |-> FALSE, key |-> 0, value |-> 0, hash |-> 0, ref_count |-> 0]
NoTracker == [pc |-> "none", ptr |-> 0, key |-> 0, value |-> 0]

InitCache ==
    /\ heap = [a \in Addrs |-> FreeMem]
    /\ lru = <<>>
    /\ table = [b \in Buckets |-> <<>>]
    /\ table_len = 0
    /\ trackers = [t \in Trackers |-> NoTracker]

LRUEntry_new(key, value, hash) ==
    [live |-> TRUE, key |-> key, value |-> value, hash |-> hash, ref_count |-> 1]

\* the first entry of the bucket's chain with this hash and key, 0 if none
HashTable_look_up(tbl, mem, key, hash) ==
    LET chain == tbl[BucketOf(hash)]
        hit == {i \in 1..Len(chain) :
                    mem[chain[i]].hash = hash /\ mem[chain[i]].key = key}
    IN  IF hit = {} THEN 0 ELSE chain[MinOf(hit)]

HashTable_insert(tbl, mem, entry) ==
    [tbl EXCEPT ![BucketOf(mem[entry].hash)] = <<entry>> \o @]

\* the chain of the entry's bucket without the entry
HashTable_unlink(tbl, mem, entry) ==
    [tbl EXCEPT ![BucketOf(mem[entry].hash)] = SelectSeq(@, LAMBDA n : n # entry)]

\* variant of attach that links the entry before the tail
attach_at_tail(list, n) == list \o <<n>>

attach(list, n) == <<n>> \o list

detach(list, n) == SelectSeq(list, LAMBDA m : m # n)

\* variant of release that frees the entry while one reference is left
release_early(mem, n) ==
    IF mem[n].ref_count <= 2
    THEN [mem EXCEPT ![n] = FreeMem]
    ELSE [mem EXCEPT ![n].ref_count = @ - 1]

\* release run in one piece: fetch_sub, then the free when the count was 1
release(mem, n) ==
    IF mem[n].ref_count = 1
    THEN [mem EXCEPT ![n] = FreeMem]
    ELSE [mem EXCEPT ![n].ref_count = @ - 1]

\* variant of HashTable::remove that keeps the table's reference
HashTable_remove_unreleased(entry) ==
    /\ table' = HashTable_unlink(table, heap, entry)
    /\ table_len' = table_len - 1
    /\ UNCHANGED heap

\* HashTable::remove: unlink, len -= 1, release
HashTable_remove(entry) ==
    /\ table' = HashTable_unlink(table, heap, entry)
    /\ table_len' = table_len - 1
    /\ heap' = release(heap, entry)

\* variant of look_up that hands out the tracker without counting it
LRUCache_look_up_uncounted(t, key, hash) ==
    /\ trackers[t].pc = "none"
    /\ LET n == HashTable_look_up(table, heap, key, hash)
       IN  /\ trackers' = [trackers EXCEPT ![t] =
                  [pc |-> "held", ptr |-> n, key |-> key,
                   value |-> IF n = 0 THEN 0 ELSE heap[n].value]]
           /\ lru' = IF n = 0 THEN lru ELSE attach(detach(lru, n), n)
    /\ UNCHANGED <<heap, table, table_len>>

\* variant of look_up that detaches the entry it hit and does not attach it
LRUCache_look_up_unattached(t, key, hash) ==
    /\ trackers[t].pc = "none"
    /\ LET n == HashTable_look_up(table, heap, key, hash)
       IN  /\ trackers' = [trackers EXCEPT ![t] =
                  [pc |-> "held", ptr |-> n, key |-> key,
                   value |-> IF n = 0 THEN 0 ELSE heap[n].value]]
           /\ IF n = 0
              THEN UNCHANGED <<lru, heap>>
              ELSE /\ lru' = detach(lru, n)
                   /\ heap' = [heap EXCEPT ![n].ref_count = @ + 1]
    /\ UNCHANGED <<table, table_len>>

LRUCache_look_up(t, key, hash) ==
    /\ trackers[t].pc = "none"
    /\ LET n == HashTable_look_up(table, heap, key, hash)
       IN  /\ trackers' = [trackers EXCEPT ![t] =
                  [pc |-> "held", ptr |-> n, key |-> key,
                   value |-> IF n = 0 THEN 0 ELSE heap[n].value]]
           /\ IF n = 0
              THEN UNCHANGED <<lru, heap>>
              ELSE /\ lru' = attach(detach(lru, n), n)
                   /\ heap' = [heap EXCEPT ![n].ref_count = @ + 1]
    /\ UNCHANGED <<table, table_len>>

\* variant of insert_no_exists that never evicts
LRUCache_insert_without_eviction(key, value, hash) ==
    LET entry == HashTable_look_up(table, heap, key, hash)
    IN  IF entry # 0
        THEN UNCHANGED cacheVars
        ELSE \E new_entry \in {a \in Addrs : ~heap[a].live} :
                LET heap2 == [heap EXCEPT ![new_entry] = LRUEntry_new(key, value, hash)]
                IN  /\ heap' = heap2
                    /\ lru' = attach(lru, new_entry)
                    /\ table' = HashTable_insert(table, heap2, new_entry)
                    /\ table_len' = table_len + 1
                    /\ UNCHANGED trackers

\* an insert that treats a resident key as a hit and stores the new value
LRUCache_insert_refreshing(key, value, hash) ==
    LET entry == HashTable_look_up(table, heap, key, hash)
        full == table_len >= CACHE_CAP
        old == lru[Len(lru)]
        lru1 == IF full THEN detach(lru, old) ELSE lru
        table1 == IF full THEN HashTable_unlink(table, heap, old) ELSE table
        len1 == IF full THEN table_len - 1 ELSE table_len
        heap1 == IF full THEN release(heap, old) ELSE heap
    IN  IF entry # 0
        THEN /\ lru' = attach(detach(lru, entry), entry)
             /\ heap' = [heap EXCEPT ![entry].value = value]
             /\ UNCHANGED <<table, table_len, trackers>>
        ELSE \E new_entry \in {a \in Addrs : ~heap1[a].live} :
                LET heap2 == [heap1 EXCEPT ![new_entry] = LRUEntry_new(key, value, hash)]
                IN  /\ heap' = heap2
                    /\ lru' = attach(lru1, new_entry)
                    /\ table' = HashTable_insert(table1, heap2, new_entry)
                    /\ table_len' = len1 + 1
                    /\ UNCHANGED trackers

LRUCache_insert_no_exists(key, value, hash) ==
    LET entry == HashTable_look_up(table, heap, key, hash)
        full == table_len >= CACHE_CAP
        old == lru[Len(lru)]
        lru1 == IF full THEN detach(lru, old) ELSE lru
        table1 == IF full THEN HashTable_unlink(table, heap, old) ELSE table
        len1 == IF full THEN table_len - 1 ELSE table_len
        heap1 == IF full THEN release(heap, old) ELSE heap
    IN  IF entry # 0
        THEN UNCHANGED cacheVars
        ELSE \E new_entry \in {a \in Addrs : ~heap1[a].live} :
                LET heap2 == [heap1 EXCEPT ![new_entry] = LRUEntry_new(key, value, hash)]
                IN  /\ heap' = heap2
                    /\ lru' = attach(lru1, new_entry)
                    /\ table' = HashTable_insert(table1, heap2, new_entry)
                    /\ table_len' = len1 + 1
                    /\ UNCHANGED trackers

\* an erase that takes the entry off the recency list and leaves the table
LRUCache_erase_recency_only(key, hash) ==
    LET n == HashTable_look_up(table, heap, key, hash)
    IN  IF n # 0
        THEN /\ lru' = detach(lru, n)
             /\ UNCHANGED <<heap, table, table_len, trackers>>
        ELSE UNCHANGED cacheVars

LRUCache_erase(key, hash) ==
    LET n == HashTable_look_up(table, heap, key, hash)
    IN  IF n # 0
        THEN /\ lru' = detach(lru, n)
             /\ HashTable_remove(n)
             /\ UNCHANGED trackers
        ELSE UNCHANGED cacheVars

\* Drop for EntryTracker: nothing for a null tracker, else release; its
\* first step is ref_count.fetch_sub(1)
EntryTracker_drop(t) ==
    /\ trackers[t].pc = "held"
    /\ LET n == trackers[t].ptr
       IN  IF n = 0
           THEN /\ trackers' = [trackers EXCEPT ![t] = NoTracker]
                /\ UNCHANGED heap
           ELSE /\ heap' = [heap EXCEPT ![n].ref_count = @ - 1]
                /\ trackers' = [trackers EXCEPT ![t] =
                       IF heap[n].ref_count = 1
                       THEN [pc |-> "free", ptr |-> n, key |-> 0, value |-> 0]
                       ELSE NoTracker]
    /\ UNCHANGED <<lru, table, table_len>>

\* the second step of release, taken when fetch_sub returned 1: key and value
\* are dropped and the memory is deallocated
EntryTracker_free(t) ==
    /\ trackers[t].pc = "free"
    /\ heap' = [heap EXCEPT ![trackers[t].ptr] = FreeMem]
    /\ trackers' = [trackers EXCEPT ![t] = NoTracker]
    /\ UNCHANGED <<lru, table, table_len>>

NextCache ==
    \/ \E k \in CacheKeys, v \in CacheValues : LRUCache_insert_no_exists(k, v, HashOf(k))
    \/ \E t \in Trackers, k \in CacheKeys : LRUCache_look_up(t, k, HashOf(k))
    \/ \E k \in CacheKeys : LRUCache_erase(k, HashOf(k))
    \/ \E t \in Trackers : EntryTracker_drop(t)
    \/ \E t \in Trackers : EntryTracker_free(t)

\* ---- the shard called through ShardLRUCache, each call remembered ----
NoCall == [op |-> "none", key |-> 0, found |-> FALSE]
InitCalls ==
    /\ last_call = NoCall
    /\ batch_history = [b \in Lsns |-> NoBatchHistory]

ShardLRUCache_insert_no_exists(key, value, hash) ==
    /\ LRUCache_insert_no_exists(key, value, hash)
    /\ last_call' = [op |-> "insert_no_exists", key |-> key,
                     found |-> HashTable_look_up(table, heap, key, hash) # 0]
    /\ UNCHANGED batch_history

ShardLRUCache_look_up(t, key, hash) ==
    /\ LRUCache_look_up(t, key, hash)
    /\ last_call' = [op |-> "look_up", key |-> key,
                     found |-> HashTable_look_up(table, heap, key, hash) # 0]
    /\ UNCHANGED batch_history

ShardLRUCache_erase(key, hash) ==
    /\ LRUCache_erase(key, hash)
    /\ last_call' = [op |-> "erase", key |-> key,
                     found |-> HashTable_look_up(table, heap, key, hash) # 0]
    /\ UNCHANGED batch_history

NextCacheCalls ==
    \/ \E k \in CacheKeys, v \in CacheValues :
            ShardLRUCache_insert_no_exists(k, v, HashOf(k))
    \/ \E t \in Trackers, k \in CacheKeys : ShardLRUCache_look_up(t, k, HashOf(k))
    \/ \E k \in CacheKeys : ShardLRUCache_erase(k, HashOf(k))
    \/ \E t \in Trackers :
            EntryTracker_drop(t) /\ last_call' = NoCall /\ UNCHANGED batch_history
    \/ \E t \in Trackers :
            EntryTracker_free(t) /\ last_call' = NoCall /\ UNCHANGED batch_history

(***************************************************************************)
(* Properties of the cache.                                                *)
(***************************************************************************)
Resident == Range(lru)
\* the trackers that came back non-null from look_up and are not yet dropped;
\* each remembers the key it looked up and the value the entry held then
HeldTrackers == {t \in Trackers : trackers[t].pc = "held" /\ trackers[t].ptr # 0}

\* C4: the entry behind a live tracker is still allocated and still holds the
\* looked-up key and the value it held at look_up, whether or not it has been
\* evicted or erased since.
C4_HandleKeepsInsertedPair ==
    \A t \in HeldTrackers :
        LET n == trackers[t].ptr
        IN  /\ heap[n].live
            /\ heap[n].key = trackers[t].key
            /\ heap[n].value = trackers[t].value

\* a tracker on an entry that is no longer resident, while the key has been
\* inserted again with another value
C4_Witness ==
    \E t \in HeldTrackers, n \in Resident :
        /\ trackers[t].ptr \notin Resident
        /\ heap[n].key = trackers[t].key
        /\ heap[n].value # trackers[t].value
        /\ heap[trackers[t].ptr].value = trackers[t].value
        /\ table_len = CACHE_CAP

\* the entries linked in the hash table
InTable == UNION {Range(table[b]) : b \in Buckets}
\* the keys of the resident entries, most recently used first
KeyOrder == [i \in 1..Len(lru) |-> heap[lru[i]].key]
Without(seq, k) == SelectSeq(seq, LAMBDA x : x # k)

\* C13: the shard never holds more than CACHE_CAP entries; len counts the
\* entries of the recency list, which are the entries of the hash table.
C13_LenAtMostCap ==
    /\ table_len <= CACHE_CAP
    /\ table_len = Len(lru)
    /\ Resident = InTable
    /\ Cardinality(Resident) = table_len

\* the shard is full, and a tracker holds an entry that is no longer
\* resident and whose key is not resident either
C13_Witness ==
    /\ table_len = CACHE_CAP
    /\ \E t \in HeldTrackers :
          /\ trackers[t].ptr \notin Resident
          /\ trackers[t].key \notin Range(KeyOrder)

Refs(n) ==
    (IF n \in Resident THEN 1 ELSE 0)
        + Cardinality({t \in HeldTrackers : trackers[t].ptr = n})
\* the trackers whose release of n took the count to 0 and has yet to free it
Freeing(n) == {t \in Trackers : trackers[t].pc = "free" /\ trackers[t].ptr = n}

\* C15: an entry is allocated exactly while it is referenced or its last
\* release is between the decrement to 0 and the free: its ref_count is the
\* number of its references, no entry is freed while referenced, no entry
\* stays allocated without a reference unless one release is about to free
\* it, and no release frees memory that is already free.
C15_FreedExactlyOnceAtZero ==
    \A n \in Addrs :
        /\ heap[n].live =>
              /\ heap[n].ref_count = Refs(n)
              /\ Refs(n) = 0 => Cardinality(Freeing(n)) = 1
              /\ Refs(n) > 0 => Freeing(n) = {}
        /\ ~heap[n].live => (Refs(n) = 0 /\ Freeing(n) = {})

\* one evicted entry is between its last decrement and its free while
\* another non-resident entry is still held
C15_Witness ==
    /\ \E t \in Trackers : trackers[t].pc = "free" /\ heap[trackers[t].ptr].live
    /\ \E t \in HeldTrackers : trackers[t].ptr \notin Resident

\* the resident entry of a key, 0 without one
ResidentEntry(k) ==
    IF k \in Range(KeyOrder) THEN lru[MinOf({i \in 1..Len(lru) : KeyOrder[i] = k})]
    ELSE 0

\* C26: insert_no_exists for a key that is resident leaves the shard as it
\* was: every entry with its value and ref_count, the recency order, the
\* hash table, len and the trackers.
C26_InsertOfResidentKeyChangesNothing ==
    [][(last_call'.op = "insert_no_exists" /\ last_call'.key \in Range(KeyOrder))
          => /\ heap' = heap
             /\ lru' = lru
             /\ table' = table
             /\ table_len' = table_len
             /\ trackers' = trackers
      ]_vars
\* the last call was insert_no_exists for a key whose entry is resident
\* behind another in a full shard and held by a tracker
C26_Witness ==
    /\ last_call.op = "insert_no_exists"
    /\ last_call.found
    /\ table_len = CACHE_CAP
    /\ LET n == ResidentEntry(last_call.key)
       IN  /\ n # 0
           /\ n # lru[1]
           /\ heap[n].ref_count = 2
           /\ \E t \in HeldTrackers : trackers[t].ptr = n

\* what table.look_up gives for key k in the shard after the step
LookUpAfter(k) == HashTable_look_up(table', heap', k, HashOf(k))

\* C27: erase of a resident key leaves a shard in which a look-up of the
\* key misses, len is one lower, and every other resident key is still
\* found, in the same entry with the same value and at the same place of
\* the recency order; erase of a key that is not resident leaves the shard
\* as it was.
C27_EraseTakesOutOneKey ==
    [][last_call'.op = "erase" =>
          LET k == last_call'.key
          IN  IF k \in Range(KeyOrder)
              THEN /\ last_call'.found
                   /\ LookUpAfter(k) = 0
                   /\ k \notin Range(KeyOrder')
                   /\ table_len' = table_len - 1
                   /\ KeyOrder' = Without(KeyOrder, k)
                   /\ \A k2 \in Range(KeyOrder) \ {k} :
                         /\ LookUpAfter(k2) = ResidentEntry(k2)
                         /\ LookUpAfter(k2) # 0
                         /\ heap'[LookUpAfter(k2)].live
                         /\ heap'[LookUpAfter(k2)].value = heap[ResidentEntry(k2)].value
              ELSE /\ ~last_call'.found
                   /\ heap' = heap
                   /\ lru' = lru
                   /\ table' = table
                   /\ table_len' = table_len
                   /\ trackers' = trackers
      ]_vars
\* the last call erased a key it found while a tracker held the entry;
\* another key is still resident
C27_Witness ==
    /\ last_call.op = "erase"
    /\ last_call.found
    /\ last_call.key \notin Range(KeyOrder)
    /\ table_len = 1
    /\ \E t \in HeldTrackers :
          /\ trackers[t].key = last_call.key
          /\ trackers[t].ptr \notin Resident
          /\ heap[trackers[t].ptr].live
\* the last call was erase of a key that was not resident, on a shard
\* that holds entries
C27_MissWitness ==
    /\ last_call.op = "erase"
    /\ ~last_call.found
    /\ table_len = CACHE_CAP

\* the times entry n is linked in the recency list and in the hash table
TimesInList(n) == Cardinality({i \in 1..Len(lru) : lru[i] = n})
TimesInTable(n) ==
    Cardinality({<<b, i>> \in Buckets \X (1..NumAddrs) :
                    i <= Len(table[b]) /\ table[b][i] = n})
LiveHandles(n) == {t \in HeldTrackers : trackers[t].ptr = n}

\* C33: every allocated entry is resident, linked once in the recency list
\* and once in the hash table (in the bucket of its hash) with a ref_count
\* of at least 1, or evicted, linked in neither; its ref_count is 1 if
\* resident, else 0, plus the number of live handles to it; memory that is
\* not allocated is linked nowhere; and len is the number of residents.
C33_ResidentOrEvicted ==
    /\ \A n \in Addrs :
          /\ heap[n].live =>
                /\ \/ /\ TimesInList(n) = 1
                      /\ TimesInTable(n) = 1
                      /\ n \in Range(table[BucketOf(heap[n].hash)])
                      /\ heap[n].ref_count >= 1
                   \/ /\ TimesInList(n) = 0
                      /\ TimesInTable(n) = 0
                /\ heap[n].ref_count =
                      (IF TimesInList(n) = 1 THEN 1 ELSE 0) + Cardinality(LiveHandles(n))
          /\ ~heap[n].live =>
                /\ TimesInList(n) = 0
                /\ TimesInTable(n) = 0
                /\ LiveHandles(n) = {}
    /\ table_len = Cardinality({n \in Addrs : heap[n].live /\ TimesInList(n) = 1})
\* a resident entry held by one handle beside an evicted entry held by
\* another, and a second resident that nobody holds
C33_Witness ==
    \E n1 \in Addrs, n2 \in Addrs, n3 \in Addrs :
        /\ heap[n1].live /\ heap[n2].live /\ heap[n3].live
        /\ TimesInList(n1) = 1 /\ heap[n1].ref_count = 2
        /\ TimesInList(n2) = 0 /\ heap[n2].ref_count = 1
        /\ TimesInList(n3) = 1 /\ heap[n3].ref_count = 1

\* the step is a look_up through tracker t
LooksUp(t) ==
    /\ last_call'.op = "look_up"
    /\ trackers[t].pc = "none"
    /\ trackers'[t].pc = "held"
\* the step is the drop of a null tracker t
DropsNull(t) ==
    /\ trackers[t].pc = "held"
    /\ trackers[t].ptr = 0
    /\ trackers'[t].pc # "held"

\* C35: a look_up leaves the set of resident entries, the hash table and
\* len as they were.  For a resident key it returns a handle to the
\* resident entry, which holds the value inserted, moves that entry to
\* the head of the recency order, the others keeping their order, and adds
\* one to its ref_count and to no other; for a key that is not resident it
\* returns the null handle and changes nothing; the drop of a null handle
\* changes nothing.  This holds of every look_up, whatever handles of
\* other threads are held at the time.
C35_LookUpKeepsResidents ==
    [][\A t \in Trackers :
          /\ LooksUp(t) =>
                LET k == last_call'.key
                    n == ResidentEntry(k)
                IN  /\ Range(lru') = Range(lru)
                    /\ table' = table
                    /\ table_len' = table_len
                    /\ trackers'[t].ptr = n
                    /\ \A u \in Trackers \ {t} : trackers'[u] = trackers[u]
                    /\ IF n # 0
                       THEN /\ last_call'.found
                            /\ heap[n].key = k
                            /\ trackers'[t].value = heap[n].value
                            /\ lru' = <<n>> \o Without(lru, n)
                            /\ heap' = [heap EXCEPT ![n].ref_count = @ + 1]
                       ELSE /\ ~last_call'.found
                            /\ heap' = heap
                            /\ lru' = lru
          /\ DropsNull(t) =>
                /\ UNCHANGED <<heap, lru, table, table_len>>
                /\ \A u \in Trackers \ {t} : trackers'[u] = trackers[u]
      ]_vars
\* two handles from two look_ups of the same resident key, the entry not
\* the only resident: it is at the head with ref_count 3
C35_Witness ==
    /\ last_call.op = "look_up"
    /\ last_call.found
    /\ table_len = CACHE_CAP
    /\ LET n == ResidentEntry(last_call.key)
       IN  /\ n = lru[1]
           /\ heap[n].ref_count = 3
           /\ \A t \in Trackers : t \in HeldTrackers /\ trackers[t].ptr = n
\* a look_up of a key that is not resident has returned the null handle
C35_MissWitness ==
    /\ last_call.op = "look_up"
    /\ ~last_call.found
    /\ table_len > 0
    /\ \E t \in Trackers : trackers[t].pc = "held" /\ trackers[t].ptr = 0

(***************************************************************************)
(* Level-0 compaction (sstable/level0_compact.rs).  A table is its entries *)
(* in ascending key order, an entry a record [key, value]; the empty value *)
(* (a tombstone) is Tombstone.                                             *)
(***************************************************************************)
CompactKeys == 1..NumCompactKeys

RECURSIVE TableOf(_, _)
\* the table holding key k..NumCompactKeys of f wherever f is not NoValue
TableOf(f, k) ==
    IF k > NumCompactKeys THEN <<>>
    ELSE (IF f[k] = NoValue THEN <<>> ELSE <<[key |-> k, value |-> f[k]]>>)
         \o TableOf(f, k + 1)

\* the tables whose values are tombstones or v
TablesOfValue(v) ==
    {TableOf(f, 1) : f \in [CompactKeys -> {NoValue, Tombstone, v}]} \ {<<>>}

RECURSIVE Level0Lists(_)
\* the lists of n level-0 tables; values written by table j are j
Level0Lists(n) ==
    IF n = 0 THEN {<<>>}
    ELSE {Append(l, t) : l \in Level0Lists(n - 1), t \in TablesOfValue(n)}

RECURSIVE Cuts(_, _)
\* the ways to cut table t into at most n non-empty tables
Cuts(t, n) ==
    IF t = <<>> THEN {<<>>}
    ELSE IF n = 1 THEN {<<t>>}
    ELSE UNION {{<<SubSeq(t, 1, i)>> \o rest :
                    rest \in Cuts(SubSeq(t, i + 1, Len(t)), n - 1)}
                : i \in 1..Len(t)}

\* the ordered non-overlapping lists of at most MaxLevel1Tables level-1
\* tables; level-1 values are MaxLevel0Tables + 1
Level1Lists ==
    {<<>>} \cup
    UNION {Cuts(t, MaxLevel1Tables) : t \in TablesOfValue(MaxLevel0Tables + 1)}

InitCompactIdle ==
    /\ level0_table_handles = <<>>
    /\ level1_table_handles = <<>>
    /\ new_tables = <<>>
    /\ compact_pc = "ready"
    /\ manager_calls = <<>>

InitCompact ==
    /\ level0_table_handles \in UNION {Level0Lists(n) : n \in 1..MaxLevel0Tables}
    /\ level1_table_handles \in Level1Lists
    /\ new_tables = <<>>
    /\ compact_pc = "ready"
    /\ manager_calls = <<>>

RECURSIVE Flatten(_)
\* the entries of a list of tables, in iteration order
Flatten(tables) ==
    IF tables = <<>> THEN <<>> ELSE Head(tables) \o Flatten(Tail(tables))

\* SkipMap::insert of the unique variant: the entry takes the place of an
\* entry of the same key
SkipMap_insert(map, entry) ==
    SelectSeq(map, LAMBDA e : e.key < entry.key)
        \o <<entry>> \o SelectSeq(map, LAMBDA e : e.key > entry.key)

RECURSIVE SkipMap_insert_all(_, _)
SkipMap_insert_all(map, entries) ==
    IF entries = <<>> THEN map
    ELSE SkipMap_insert_all(SkipMap_insert(map, Head(entries)), Tail(entries))

merge_level0_tables(level0_tables) ==
    SkipMap_insert_all(<<>>, Flatten(level0_tables))

\* The running state of a merge: kv is the position of the level-0 cursor
\* (past the end when the cursor is null), temp_kvs the table being filled,
\* out the tables added so far.
MergeStart == [kv |-> 1, temp_kvs |-> <<>>, out |-> <<>>, panicked |-> FALSE]

\* temp_kvs.push(entry) and the flush of a full table; the remainder by a
\* zero level1_table_size panics (as does the debug_assert on it, earlier)
push(st, entry, level1_table_size) ==
    IF st.panicked THEN st
    ELSE LET t == Append(st.temp_kvs, entry)
         IN  IF level1_table_size = 0
             THEN [st EXCEPT !.temp_kvs = t, !.panicked = TRUE]
             ELSE IF Len(t) % level1_table_size = 0
                  THEN [st EXCEPT !.temp_kvs = <<>>, !.out = Append(@, t)]
                  ELSE [st EXCEPT !.temp_kvs = t]

\* the last add_table_handle_from_vec of a branch
flush_rest(st) ==
    IF st.panicked \/ st.temp_kvs = <<>> THEN st
    ELSE [st EXCEPT !.temp_kvs = <<>>, !.out = Append(@, st.temp_kvs)]

RECURSIVE merge_loop(_, _, _, _)
\* the inner loop for one level-1 entry while the level-0 cursor is not null
merge_loop(st, level0, level1_entry, size) ==
    LET level0_entry == level0[st.kv]
    IN  IF st.panicked THEN st
        ELSE IF level0_entry.key = level1_entry.key
        THEN [push(st, level0_entry, size) EXCEPT !.kv = @ + 1]
        ELSE IF level0_entry.key > level1_entry.key
        THEN push(st, level1_entry, size)
        ELSE LET st1 == [push(st, level0_entry, size) EXCEPT !.kv = @ + 1]
             IN  IF st1.kv > Len(level0)
                 THEN push(st1, level1_entry, size)
                 ELSE merge_loop(st1, level0, level1_entry, size)

RECURSIVE merge_level1(_, _, _, _)
\* the loops over the level-1 tables and their entries
merge_level1(st, level0, level1_entries, size) ==
    IF level1_entries = <<>> THEN st
    ELSE LET level1_entry == Head(level1_entries)
             st1 == IF st.kv > Len(level0)
                    THEN push(st, level1_entry, size)
                    ELSE merge_loop(st, level0, level1_entry, size)
         IN  merge_level1(st1, level0, Tail(level1_entries), size)

RECURSIVE write_remaining(_, _, _)
\* the remaining level-0 entries, then the table left in temp_kvs
write_remaining(st, level0, size) ==
    IF st.kv > Len(level0) THEN flush_rest(st)
    ELSE write_remaining([push(st, level0[st.kv], size) EXCEPT !.kv = @ + 1],
                         level0, size)

\* the result of compact_and_insert on the two lists of tables
compact(level0_tables, level1_tables) ==
    LET level0_skip_map == merge_level0_tables(level0_tables)
    IN  IF level1_tables = <<>>
        THEN LET level1_table_size == Len(level0_skip_map) \div LEVEL0_FILES_THRESHOLD
             IN  IF level1_table_size = 0
                 THEN [MergeStart EXCEPT !.out = <<level0_skip_map>>]
                 ELSE write_remaining(MergeStart, level0_skip_map, level1_table_size)
        ELSE LET kv_total == Len(level0_skip_map) + Len(Flatten(level1_tables))
                 level1_table_size == kv_total \div LEVEL0_FILES_THRESHOLD
             IN  write_remaining(
                     merge_level1(MergeStart, level0_skip_map,
                                  Flatten(level1_tables), level1_table_size),
                     level0_skip_map, level1_table_size)

\* table_manager.upsert_table_handle for each of the n tables written
upsert_table_handles(n) ==
    [i \in 1..n |-> [op |-> "upsert_table_handle", level |-> 1, table |-> i]]

\* the two loops at the end of compact_and_insert
ready_to_delete(level0_tables, level1_tables) ==
    [j \in 1..Len(level0_tables) |-> [op |-> "ready_to_delete", level |-> 0, table |-> j]]
        \o [j \in 1..Len(level1_tables) |-> [op |-> "ready_to_delete", level |-> 1, table |-> j]]

\* variant of compact_and_insert that marks its inputs before it merges them
compact_and_insert_marking_first ==
    /\ compact_pc = "ready"
    /\ LET st == compact(level0_table_handles, level1_table_handles)
       IN  /\ new_tables' = st.out
           /\ compact_pc' = IF st.panicked THEN "panicked" ELSE "done"
           /\ manager_calls' =
                  ready_to_delete(level0_table_handles, level1_table_handles)
                      \o upsert_table_handles(Len(st.out))
    /\ UNCHANGED <<level0_table_handles, level1_table_handles>>

compact_and_insert ==
    /\ compact_pc = "ready"
    /\ LET st == compact(level0_table_handles, level1_table_handles)
       IN  /\ new_tables' = st.out
           /\ compact_pc' = IF st.panicked THEN "panicked" ELSE "done"
           /\ manager_calls' =
                  upsert_table_handles(Len(st.out))
                      \o (IF st.panicked THEN <<>>
                          ELSE ready_to_delete(level0_table_handles,
                                               level1_table_handles))
    /\ UNCHANGED <<level0_table_handles, level1_table_handles>>

NextCompact == compact_and_insert

(***************************************************************************)
(* Properties of the compaction.                                           *)
(***************************************************************************)
KeysOf(entries) == {entries[i].key : i \in DOMAIN entries}
ValueOf(entries, k) == entries[CHOOSE i \in DOMAIN entries : entries[i].key = k].value
InputKeys ==
    KeysOf(Flatten(level0_table_handles)) \cup KeysOf(Flatten(level1_table_handles))
\* the value of k in the newest input holding k
NewestInput(k) ==
    LET holders == {j \in DOMAIN level0_table_handles :
                        k \in KeysOf(level0_table_handles[j])}
        latest == CHOOSE j \in holders : \A i \in holders : i <= j
    IN  IF holders # {} THEN ValueOf(level0_table_handles[latest], k)
        ELSE ValueOf(Flatten(level1_table_handles), k)
OutputEntries == Flatten(new_tables)

\* C5: after compact_and_insert the output tables together hold every input
\* key exactly once and no other key, each with the value of its newest input
\* (level-0 over level-1, a later level-0 table over an earlier one),
\* tombstones included.
C5_OutputHoldsNewestOfEveryKey ==
    compact_pc # "ready" =>
        /\ \A k \in CompactKeys :
              Cardinality({i \in DOMAIN OutputEntries : OutputEntries[i].key = k})
                  = (IF k \in InputKeys THEN 1 ELSE 0)
        /\ \A i \in DOMAIN OutputEntries :
              OutputEntries[i].value = NewestInput(OutputEntries[i].key)

\* the same, for the compactions that ran to their end
CompletedOutputHoldsNewestOfEveryKey ==
    compact_pc = "done" =>
        /\ \A k \in CompactKeys :
              Cardinality({i \in DOMAIN OutputEntries : OutputEntries[i].key = k})
                  = (IF k \in InputKeys THEN 1 ELSE 0)
        /\ \A i \in DOMAIN OutputEntries :
              OutputEntries[i].value = NewestInput(OutputEntries[i].key)

\* C18: a compaction with a non-empty level-1 input runs to its end whatever
\* the size of the inputs; on level-0 {1 -> 1} and level-1 {1 -> 3, 2 -> 3}
\* (x -> new over x -> old, y -> y1) the output holds exactly 1 -> 1, 2 -> 3.
C18_CompactionWithLevel1Completes ==
    (compact_pc # "ready" /\ level1_table_handles # <<>>) =>
        /\ compact_pc = "done"
        /\ (/\ level0_table_handles = <<<<[key |-> 1, value |-> 1]>>>>
            /\ Flatten(level1_table_handles) =
                  <<[key |-> 1, value |-> MaxLevel0Tables + 1],
                    [key |-> 2, value |-> MaxLevel0Tables + 1]>>)
              => OutputEntries = <<[key |-> 1, value |-> 1],
                                   [key |-> 2, value |-> MaxLevel0Tables + 1]>>

RECURSIVE StreamFrom(_)
\* the merged stream from key k on: the input keys in ascending order, each
\* with the value of its newest input
StreamFrom(k) ==
    IF k > NumCompactKeys THEN <<>>
    ELSE (IF k \in InputKeys THEN <<[key |-> k, value |-> NewestInput(k)]>> ELSE <<>>)
         \o StreamFrom(k + 1)
\* the entries counted by the compaction: merged level-0 plus all of level-1
KvTotal ==
    Cardinality(KeysOf(Flatten(level0_table_handles)))
        + Len(Flatten(level1_table_handles))
PartitionSize == KvTotal \div LEVEL0_FILES_THRESHOLD
OutputIsChunked ==
    /\ OutputEntries = StreamFrom(1)
    /\ \A i \in DOMAIN new_tables : new_tables[i] # <<>>
    /\ PartitionSize > 0 =>
          \A i \in DOMAIN new_tables :
              IF i < Len(new_tables) THEN Len(new_tables[i]) = PartitionSize
              ELSE Len(new_tables[i]) <= PartitionSize
    /\ (PartitionSize = 0 /\ level1_table_handles = <<>>) => Len(new_tables) = 1
    /\ \A i, j \in DOMAIN OutputEntries :
          i < j => OutputEntries[i].key < OutputEntries[j].key

\* C19: the output tables are consecutive chunks of the merged ascending
\* stream: all but the last hold exactly P = kv_total / 4 entries, none is
\* empty, keys ascend strictly from table to table, and with P = 0 and no
\* level-1 input all of level-0 is one table.
C19_OutputIsChunkedMergedStream ==
    compact_pc # "ready" => OutputIsChunked

\* the same, for the compactions that ran to their end
CompletedOutputIsChunked ==
    compact_pc = "done" => OutputIsChunked

\* the positions in manager_calls of the calls of op on table j of a level
CallsOn(op, level, j) ==
    {p \in 1..Len(manager_calls) :
        manager_calls[p] = [op |-> op, level |-> level, table |-> j]}
\* the positions of the calls of op
CallsOf(op) == {p \in 1..Len(manager_calls) : manager_calls[p].op = op}

\* C39: in compact_and_insert every upsert_table_handle of an output table
\* comes before every ready_to_delete, and when ready_to_delete is called
\* at all every output table has been upserted; when compact_and_insert has
\* returned, ready_to_delete has been called exactly once for each level-0
\* and each level-1 input table, and for no other.
C39_UpsertsBeforeMarksAndEachInputMarkedOnce ==
    /\ \A p \in CallsOf("upsert_table_handle"), q \in CallsOf("ready_to_delete") : p < q
    /\ CallsOf("ready_to_delete") # {} =>
          \A i \in 1..Len(new_tables) :
              Cardinality(CallsOn("upsert_table_handle", 1, i)) = 1
    /\ compact_pc = "done" =>
          /\ \A j \in 1..Len(level0_table_handles) :
                Cardinality(CallsOn("ready_to_delete", 0, j)) = 1
          /\ \A j \in 1..Len(level1_table_handles) :
                Cardinality(CallsOn("ready_to_delete", 1, j)) = 1
          /\ Cardinality(CallsOf("ready_to_delete"))
                = Len(level0_table_handles) + Len(level1_table_handles)
\* a compaction of two level-0 and two level-1 tables into at least two has
\* returned
C39_Witness ==
    /\ compact_pc = "done"
    /\ Len(level0_table_handles) = 2
    /\ Len(level1_table_handles) = 2
    /\ Len(new_tables) >= 2
    /\ Cardinality(CallsOf("upsert_table_handle")) = Len(new_tables)
    /\ Cardinality(CallsOf("ready_to_delete")) = 4

(***************************************************************************)
(* MultiSkipMap (collections/skip_list/mrsw_skipmap.rs): one writer thread *)
(* and reader threads on the same list.  Every atomic load or store of a   *)
(* thread that another thread can observe is a step of its own; the writer *)
(* is the only thread that stores, so its own loads join its next store.   *)
(* Addresses are never handed out twice: what a reader finds in freed      *)
(* memory, a later node included, is any value.                            *)
(***************************************************************************)
SkipKeys == 1..NumSkipKeys
Levels == 0..MAX_LEVEL
Null == 0
HeadNode == 1
NodeAddrs == 1..(MaxSkipNodes + 1)
Readers == 1..NumReaders

NullNexts == [l \in Levels |-> Null]
\* an address not allocated yet
UnusedNode == [key |-> 0, level |-> 0, next |-> NullNexts, alloc |-> "unused"]
\* Node::new_with_level: the forward pointers are zeroed
new_with_level(key, level) ==
    [key |-> key, level |-> level, next |-> NullNexts, alloc |-> "live"]

\* op, key and returned stay after the call: the last call and its result;
\* before and before_len are history: the chains and len when the call began
WriterIdle ==
    [pc |-> "idle", key |-> 0, prev_nodes |-> [l \in Levels |-> HeadNode],
     node |-> Null, next_node |-> Null, i |-> 0, succ |-> NullNexts,
     op |-> "none", returned |-> FALSE,
     before |-> [l \in Levels |-> <<>>], before_len |-> 0]
\* the writer after its call has returned
Returned(w) ==
    [WriterIdle EXCEPT !.op = w.op, !.key = w.key, !.returned = w.returned]
ReaderIdle ==
    [pc |-> "idle", op |-> "none", key |-> 0, level |-> 0, node |-> Null,
     next |-> Null, known |-> FALSE, freed_deref |-> FALSE, result |-> Null]

\* MultiSkipMap::new
InitSkip ==
    /\ nodes = [a \in NodeAddrs |->
                  IF a = HeadNode THEN new_with_level(0, MAX_LEVEL) ELSE UnusedNode]
    /\ cur_max_level = 0
    /\ tail = Null
    /\ skip_len = 0
    /\ writer = WriterIdle
    /\ readers = [r \in Readers |-> ReaderIdle]

\* the test that also passes over a node of the key itself
node_le_key(nds, n, key) == n # Null /\ nds[n].key <= key
node_lt_key(nds, n, key) == n # Null /\ nds[n].key < key
\* the key of the node left out of the test
node_not_null(nds, n, key) == n # Null
node_eq_key(nds, n, key) == n # Null /\ nds[n].key = key

RECURSIVE find_from(_, _, _, _, _)
\* the loop of find_first_ge run without interruption from (node, level)
find_from(nds, key, level, n, prev_nodes) ==
    LET next == nds[n].next[level]
    IN  IF node_lt_key(nds, next, key)
        THEN find_from(nds, key, level, next, prev_nodes)
        ELSE LET p == [prev_nodes EXCEPT ![level] = n]
             IN  IF level = 0 THEN [node |-> next, prev_nodes |-> p]
                 ELSE find_from(nds, key, level - 1, n, p)

\* find_first_ge(key, Some(prev_nodes)) as the writer runs it
find_first_ge(nds, max_level, key) ==
    find_from(nds, key, max_level, HeadNode, [l \in Levels |-> HeadNode])

RECURSIVE ChainAt(_, _, _, _)
\* the nodes linked at level l from node n on, at most `fuel` of them
ChainAt(nds, n, l, fuel) ==
    IF n = Null \/ fuel = 0 THEN <<>>
    ELSE <<n>> \o ChainAt(nds, nds[n].next[l], l, fuel - 1)
\* the forward chain of each level, head left out
LevelChains(nds) ==
    [l \in Levels |-> ChainAt(nds, nds[HeadNode].next[l], l, MaxSkipNodes + 1)]

\* ---- the writer: insert ----
\* the pointer stored in the new node at level i before it is linked there
new_node_next_unset(nds, prev, i) == Null
new_node_next(nds, prev, i) == nds[prev].next[i]

\* an insert that stores its level to cur_max_level whatever the level is
insert_begin_level_stored(key, level) ==
    /\ writer.pc = "idle"
    /\ \E a \in NodeAddrs : nodes[a].alloc = "unused"
    /\ LET found == find_first_ge(nodes, cur_max_level, key)
           new_node == MinOf({a \in NodeAddrs : nodes[a].alloc = "unused"})
       IN  /\ cur_max_level' = level
           /\ nodes' = [nodes EXCEPT ![new_node] = new_with_level(key, level)]
           /\ tail' = IF nodes[found.prev_nodes[0]].next[0] = Null
                      THEN new_node ELSE tail
           /\ writer' = [WriterIdle EXCEPT
                           !.pc = "set_next", !.key = key,
                           !.prev_nodes = found.prev_nodes, !.node = new_node,
                           !.succ = [l \in Levels |->
                                       nodes[found.prev_nodes[l]].next[l]],
                           !.op = "insert",
                           !.returned = node_eq_key(nodes, found.node, key),
                           !.before = LevelChains(nodes),
                           !.before_len = skip_len]
    /\ UNCHANGED <<skip_len, readers>>

\* insert up to the allocation of the node: find_first_ge, rand_level, the
\* store to cur_max_level, new_with_level and the store to tail
insert_begin(key, level) ==
    /\ writer.pc = "idle"
    /\ \E a \in NodeAddrs : nodes[a].alloc = "unused"
    /\ LET found == find_first_ge(nodes, cur_max_level, key)
           new_node == MinOf({a \in NodeAddrs : nodes[a].alloc = "unused"})
       IN  /\ cur_max_level' = IF level > cur_max_level THEN level ELSE cur_max_level
           /\ nodes' = [nodes EXCEPT ![new_node] = new_with_level(key, level)]
           /\ tail' = IF nodes[found.prev_nodes[0]].next[0] = Null
                      THEN new_node ELSE tail
           /\ writer' = [WriterIdle EXCEPT
                           !.pc = "set_next", !.key = key,
                           !.prev_nodes = found.prev_nodes, !.node = new_node,
                           !.succ = [l \in Levels |->
                                       nodes[found.prev_nodes[l]].next[l]],
                           !.op = "insert",
                           !.returned = node_eq_key(nodes, found.node, key),
                           !.before = LevelChains(nodes),
                           !.before_len = skip_len]
    /\ UNCHANGED <<skip_len, readers>>

\* (*new_node).set_next(i, (*(prev_nodes[i])).get_next(i))
insert_set_next ==
    /\ writer.pc = "set_next"
    /\ nodes' = [nodes EXCEPT ![writer.node].next[writer.i] =
                    new_node_next(nodes, writer.prev_nodes[writer.i], writer.i)]
    /\ writer' = [writer EXCEPT !.pc = "link"]
    /\ UNCHANGED <<cur_max_level, tail, skip_len, readers>>

\* (*(prev_nodes[i])).set_next(i, new_node); after the last level, len += 1
insert_link ==
    /\ writer.pc = "link"
    /\ nodes' = [nodes EXCEPT ![writer.prev_nodes[writer.i]].next[writer.i] =
                    writer.node]
    /\ IF writer.i = nodes[writer.node].level
       THEN /\ writer' = Returned(writer)
            /\ skip_len' = skip_len + 1
       ELSE /\ writer' = [writer EXCEPT !.pc = "set_next", !.i = @ + 1]
            /\ UNCHANGED skip_len
    /\ UNCHANGED <<cur_max_level, tail, readers>>

\* ---- the writer: remove ----
\* remove up to the first store: find_first_ge and has_key; without the
\* key it returns false at once
remove_begin(key) ==
    /\ writer.pc = "idle"
    /\ LET found == find_first_ge(nodes, cur_max_level, key)
           has_key == node_eq_key(nodes, found.node, key)
       IN  writer' = IF has_key
                     THEN [WriterIdle EXCEPT
                             !.pc = "unlink", !.key = key,
                             !.prev_nodes = found.prev_nodes, !.node = found.node,
                             !.next_node = nodes[found.node].next[0],
                             !.op = "remove", !.returned = TRUE,
                             !.before = LevelChains(nodes),
                             !.before_len = skip_len]
                     ELSE [WriterIdle EXCEPT
                             !.op = "remove", !.key = key, !.returned = FALSE]
    /\ UNCHANGED <<nodes, cur_max_level, tail, skip_len, readers>>

\* the node unlinked at level 0 only
remove_unlink_level0 ==
    /\ writer.pc = "unlink"
    /\ nodes' = [nodes EXCEPT ![writer.prev_nodes[0]].next[0] =
                    nodes[writer.node].next[0]]
    /\ writer' = [writer EXCEPT !.pc = "drop"]
    /\ UNCHANGED <<cur_max_level, tail, skip_len, readers>>
\* (*prev_nodes[i]).set_next(i, (*node).get_next(i))
remove_unlink ==
    /\ writer.pc = "unlink"
    /\ nodes' = [nodes EXCEPT ![writer.prev_nodes[writer.i]].next[writer.i] =
                    nodes[writer.node].next[writer.i]]
    /\ writer' = IF writer.i = nodes[writer.node].level
                 THEN [writer EXCEPT !.pc = "drop"]
                 ELSE [writer EXCEPT !.i = @ + 1]
    /\ UNCHANGED <<cur_max_level, tail, skip_len, readers>>

\* remove without its store to tail
remove_drop_tail_kept ==
    /\ writer.pc = "drop"
    /\ skip_len' = skip_len - 1
    /\ nodes' = [nodes EXCEPT ![writer.node].alloc = "freed"]
    /\ writer' = IF node_eq_key(nodes, writer.next_node, writer.key)
                 THEN [writer EXCEPT !.pc = "unlink", !.i = 0,
                                     !.node = writer.next_node,
                                     !.next_node = nodes[writer.next_node].next[0]]
                 ELSE Returned(writer)
    /\ UNCHANGED <<cur_max_level, tail, readers>>
\* the loop of remove left after its first node
remove_drop_first_only ==
    /\ writer.pc = "drop"
    /\ skip_len' = skip_len - 1
    /\ tail' = IF writer.next_node = Null THEN writer.prev_nodes[0] ELSE tail
    /\ nodes' = [nodes EXCEPT ![writer.node].alloc = "freed"]
    /\ writer' = Returned(writer)
    /\ UNCHANGED <<cur_max_level, readers>>
\* len -= 1, the store to tail, drop_node(node), and on to the next node of
\* the key
remove_drop ==
    /\ writer.pc = "drop"
    /\ skip_len' = skip_len - 1
    /\ tail' = IF writer.next_node = Null THEN writer.prev_nodes[0] ELSE tail
    /\ nodes' = [nodes EXCEPT ![writer.node].alloc = "freed"]
    /\ writer' = IF node_eq_key(nodes, writer.next_node, writer.key)
                 THEN [writer EXCEPT !.pc = "unlink", !.i = 0,
                                     !.node = writer.next_node,
                                     !.next_node = nodes[writer.next_node].next[0]]
                 ELSE Returned(writer)
    /\ UNCHANGED <<cur_max_level, readers>>

\* ---- first_key_value, last_key_value ----
\* the node whose entry is returned, Null for None
first_key_value ==
    IF skip_len = 0 THEN Null ELSE nodes[HeadNode].next[0]
last_key_value ==
    IF skip_len = 0 THEN Null ELSE tail

\* ---- the readers ----
IsLive(n) == nodes[n].alloc = "live"
\* what get_next(level) on node n can load
LoadNext(n, level) ==
    IF IsLive(n) /\ level <= nodes[n].level THEN {nodes[n].next[level]}
    ELSE NodeAddrs \cup {Null}
\* what node_lt_key(n, key) can answer
LoadLtKey(n, key) ==
    IF n = Null THEN {FALSE}
    ELSE IF IsLive(n) THEN {nodes[n].key < key}
    ELSE BOOLEAN
\* the keys of the nodes whose insert has returned: while the writer is in
\* insert, the keys that were in the map before that insert began
StableKeys ==
    {nodes[n].key :
        n \in {a \in NodeAddrs :
                    /\ IsLive(a)
                    /\ a # HeadNode
                    /\ ~(writer.pc \in {"set_next", "link"} /\ a = writer.node)}}

\* find_first_ge(key, None): the load of cur_max_level
reader_find_begin(r, key) ==
    /\ readers[r].pc \in {"idle", "done"}
    /\ readers' = [readers EXCEPT ![r] =
                     [ReaderIdle EXCEPT !.pc = "load", !.op = "find", !.key = key,
                                        !.level = cur_max_level, !.node = HeadNode,
                                        !.known = (key \in StableKeys)]]
    /\ UNCHANGED <<nodes, cur_max_level, tail, skip_len, writer>>

\* let next = (*node).get_next(level)
reader_find_load(r) ==
    /\ readers[r].pc = "load"
    /\ \E next \in LoadNext(readers[r].node, readers[r].level) :
          readers' = [readers EXCEPT
                        ![r].next = next, ![r].pc = "cmp",
                        ![r].freed_deref = @ \/ ~IsLive(readers[r].node)]
    /\ UNCHANGED <<nodes, cur_max_level, tail, skip_len, writer>>

\* if node_lt_key(next, key) { node = next } else { return or level -= 1 }
reader_find_cmp(r) ==
    /\ readers[r].pc = "cmp"
    /\ LET rd == readers[r]
           deref == rd.freed_deref \/ (rd.next # Null /\ ~IsLive(rd.next))
       IN  \E lt \in LoadLtKey(rd.next, rd.key) :
              readers' = [readers EXCEPT ![r] =
                  IF lt THEN [rd EXCEPT !.node = rd.next, !.pc = "load",
                                        !.freed_deref = deref]
                  ELSE IF rd.level = 0
                  THEN [rd EXCEPT !.result = rd.next, !.pc = "done",
                                  !.freed_deref = deref]
                  ELSE [rd EXCEPT !.level = @ - 1, !.pc = "load",
                                  !.freed_deref = deref]]
    /\ UNCHANGED <<nodes, cur_max_level, tail, skip_len, writer>>

\* iter(): node = (*head).get_next(0)
reader_iter_begin(r) ==
    /\ readers[r].pc \in {"idle", "done"}
    /\ readers' = [readers EXCEPT ![r] =
                     [ReaderIdle EXCEPT !.pc = "next", !.op = "iter",
                                        !.node = nodes[HeadNode].next[0]]]
    /\ UNCHANGED <<nodes, cur_max_level, tail, skip_len, writer>>

\* Iter::next: None on null, else node = (*node).get_next(0)
reader_iter_next(r) ==
    /\ readers[r].pc = "next"
    /\ IF readers[r].node = Null
       THEN readers' = [readers EXCEPT ![r].pc = "done"]
       ELSE \E next \in LoadNext(readers[r].node, 0) :
              readers' = [readers EXCEPT
                            ![r].node = next, ![r].result = readers[r].node,
                            ![r].freed_deref = @ \/ ~IsLive(readers[r].node)]
    /\ UNCHANGED <<nodes, cur_max_level, tail, skip_len, writer>>

\* one writer inserting beside the readers
NextSkipInsert ==
    \/ \E k \in SkipKeys, l \in Levels : insert_begin(k, l)
    \/ insert_set_next
    \/ insert_link
    \/ \E r \in Readers, k \in SkipKeys : reader_find_begin(r, k)
    \/ \E r \in Readers : reader_find_load(r)
    \/ \E r \in Readers : reader_find_cmp(r)

\* the writer alone
NextSkipWriter ==
    \/ \E k \in SkipKeys, l \in Levels : insert_begin(k, l)
    \/ insert_set_next
    \/ insert_link
    \/ \E k \in SkipKeys : remove_begin(k)
    \/ remove_unlink
    \/ remove_drop

\* one writer inserting and removing beside one reader
NextSkip ==
    LET r == 1
    IN  \/ \E k \in SkipKeys, l \in Levels : insert_begin(k, l)
        \/ insert_set_next
        \/ insert_link
        \/ \E k \in SkipKeys : remove_begin(k)
        \/ remove_unlink
        \/ remove_drop
        \/ \E k \in SkipKeys : reader_find_begin(r, k)
        \/ reader_find_load(r)
        \/ reader_find_cmp(r)
        \/ reader_iter_begin(r)
        \/ reader_iter_next(r)

(***************************************************************************)
(* Properties of the skip list.                                            *)
(***************************************************************************)
Inserting == writer.pc \in {"set_next", "link"}

\* C6: no reader dereferences a node that remove has freed.
C6_ReaderNeverDereferencesFreedNode ==
    \A r \in Readers : ~readers[r].freed_deref

\* C7: during an insert, (a) wherever the new node is linked at a level its
\* forward pointer of that level is the successor it was inserted before,
\* (b) no node is linked at a level above cur_max_level, and (c) a
\* find_first_ge for a key that was in the map before the insert began
\* returns a node with that key, run at any intermediate state or step by
\* step alongside the writer.
C7_InsertKeepsReadersConsistent ==
    /\ Inserting =>
          \A l \in Levels :
              nodes[writer.prev_nodes[l]].next[l] = writer.node =>
                  nodes[writer.node].next[l] = writer.succ[l]
    /\ \A n \in NodeAddrs, l \in Levels :
          nodes[n].next[l] # Null => l <= cur_max_level
    /\ \A k \in StableKeys :
          node_eq_key(nodes, find_first_ge(nodes, cur_max_level, k).node, k)
    /\ \A r \in Readers :
          (readers[r].pc = "done" /\ readers[r].known) =>
              node_eq_key(nodes, readers[r].result, readers[r].key)

\* the writer has linked a node of the highest level at the levels below and
\* raised cur_max_level for it, the node has a successor, and a reader
\* looking for a key that was in the map before has stepped onto the node
C7_Witness ==
    /\ writer.pc = "set_next"
    /\ writer.i = MAX_LEVEL
    /\ nodes[HeadNode].next[MAX_LEVEL] = Null
    /\ cur_max_level = MAX_LEVEL
    /\ nodes[writer.node].next[0] # Null
    /\ \E r \in Readers :
          /\ readers[r].pc = "load"
          /\ readers[r].node = writer.node
          /\ readers[r].known
    /\ \E r \in Readers :
          /\ readers[r].pc = "done"
          /\ readers[r].known
          /\ readers[r].result = writer.succ[0]

\* ---- the map between calls of its writer ----
Chain(l) == LevelChains(nodes)[l]
KeysAlong(nds, chain) == [i \in 1..Len(chain) |-> nds[chain[i]].key]
Ascending(s) == \A i \in 1..Len(s) - 1 : s[i] <= s[i + 1]
NoRepeat(s) == \A i, j \in 1..Len(s) : s[i] = s[j] => i = j
\* sub is what is left of s when some of its elements are taken out
IsSubsequence(sub, s) ==
    /\ Range(sub) \subseteq Range(s)
    /\ sub = SelectSeq(s, LAMBDA x : x \in Range(sub))
WriterReturned == writer.pc = "idle"

\* C21: between the calls of the writer the chain of every level runs
\* through live nodes without a cycle, ascends by key (equal keys side by
\* side), and is a subsequence of the chain of level 0.
C21_LevelsSortedSubsequencesOfLevel0 ==
    WriterReturned =>
        \A l \in Levels :
            /\ NoRepeat(Chain(l))
            /\ \A i \in 1..Len(Chain(l)) : IsLive(Chain(l)[i])
            /\ Ascending(KeysAlong(nodes, Chain(l)))
            /\ IsSubsequence(Chain(l), Chain(0))
\* a remove has returned true and left two nodes of one key, one of them
\* linked at the top level
C21_Witness ==
    /\ WriterReturned
    /\ writer.op = "remove"
    /\ writer.returned
    /\ Len(Chain(0)) = 2
    /\ Len(Chain(MAX_LEVEL)) = 1
    /\ nodes[Chain(0)[1]].key = nodes[Chain(0)[2]].key

\* what iter() yields when run to its end between two calls of the writer
IterAll == ChainAt(nodes, nodes[HeadNode].next[0], 0, MaxSkipNodes + 1)
InsertReturns == writer.pc = "link" /\ writer'.pc = "idle"

\* C22: between the calls of the writer len is the number of nodes on the
\* level-0 chain and iteration yields that many nodes in ascending key
\* order; an insert, of a new or of a present key, leaves the chain it
\* found with exactly one node more, of the inserted key, len one higher,
\* and returns true exactly when the chain it found held the key.
C22_LenCountsNodesInsertAddsOne ==
    [][/\ WriterReturned' =>
            /\ skip_len' = Len(Chain(0)')
            /\ Len(IterAll') = skip_len'
            /\ Ascending(KeysAlong(nodes', IterAll'))
       /\ InsertReturns =>
            /\ writer.node \notin Range(writer.before[0])
            /\ nodes'[writer.node].key = writer.key
            /\ Len(Chain(0)') = Len(writer.before[0]) + 1
            /\ SelectSeq(Chain(0)', LAMBDA n : n # writer.node) = writer.before[0]
            /\ skip_len' = writer.before_len + 1
            /\ writer'.returned =
                  (\E i \in 1..Len(writer.before[0]) :
                        nodes[writer.before[0][i]].key = writer.key)
      ]_vars
\* an insert of a key already held twice has returned true: three nodes
C22_Witness ==
    /\ WriterReturned
    /\ writer.op = "insert"
    /\ writer.returned
    /\ skip_len = 3
    /\ \A i \in 1..Len(IterAll) : nodes[IterAll[i]].key = writer.key

RemoveReturnsTrue == writer.pc = "drop" /\ writer'.pc = "idle"
RemoveReturnsFalse ==
    /\ writer.pc = "idle"
    /\ writer'.pc = "idle"
    /\ writer'.op = "remove"
    /\ ~writer'.returned
\* the nodes of a chain whose key is not `key`, in the order of the chain
WithoutKey(nds, chain, key) == SelectSeq(chain, LAMBDA n : nds[n].key # key)

\* C23: a remove that found its key returns true with, at every level, the
\* chain it found less the nodes of that key and no other, those nodes
\* dropped, and len lower by their number; a remove that returns false is
\* one whose key no node had, and it leaves the map as it was.
C23_RemoveTakesEveryNodeOfKey ==
    [][/\ RemoveReturnsTrue =>
            /\ writer'.op = "remove" /\ writer'.returned
            /\ \E i \in 1..Len(writer.before[0]) :
                  nodes[writer.before[0][i]].key = writer.key
            /\ \A l \in Levels :
                  Chain(l)' = WithoutKey(nodes, writer.before[l], writer.key)
            /\ \A i \in 1..Len(writer.before[0]) :
                  LET n == writer.before[0][i]
                  IN  nodes'[n].alloc =
                        IF nodes[n].key = writer.key THEN "freed" ELSE "live"
            /\ skip_len' = writer.before_len
                  - Cardinality({i \in 1..Len(writer.before[0]) :
                                    nodes[writer.before[0][i]].key = writer.key})
       /\ RemoveReturnsFalse =>
            /\ \A i \in 1..Len(Chain(0)) : nodes[Chain(0)[i]].key # writer'.key
            /\ UNCHANGED <<nodes, cur_max_level, tail, skip_len>>
       /\ (writer.pc = "idle" /\ writer'.pc = "idle") => RemoveReturnsFalse
      ]_vars
\* a remove of a key held by two nodes has returned true beside a node of
\* another key that stays
C23_Witness ==
    /\ WriterReturned
    /\ writer.op = "remove"
    /\ writer.returned
    /\ skip_len = 1
    /\ Cardinality({n \in NodeAddrs : nodes[n].alloc = "freed"}) = 2
    /\ nodes[Chain(0)[1]].key # writer.key
\* a remove of a key no node has returned false on a map that holds a node
C23_MissWitness ==
    /\ WriterReturned
    /\ writer.op = "remove"
    /\ ~writer.returned
    /\ skip_len > 0

ChainKeys == {nodes[n].key : n \in Range(Chain(0))}

\* C24: between the calls of the writer first_key_value and last_key_value
\* are None exactly when no node is on the level-0 chain; otherwise they
\* are entries of live nodes of the chain with its smallest and its
\* greatest key, and tail is the last node of the level-0 chain.
C24_FirstAndLastAreTheExtremes ==
    WriterReturned =>
        /\ (first_key_value = Null) = (Chain(0) = <<>>)
        /\ (last_key_value = Null) = (Chain(0) = <<>>)
        /\ skip_len > 0 =>
              /\ tail = Chain(0)[Len(Chain(0))]
              /\ first_key_value \in Range(Chain(0))
              /\ last_key_value \in Range(Chain(0))
              /\ IsLive(first_key_value) /\ IsLive(last_key_value)
              /\ \A k \in ChainKeys :
                    /\ nodes[first_key_value].key <= k
                    /\ k <= nodes[last_key_value].key
\* a remove has taken the last node of the chain and a node of a smaller
\* key remains
C24_Witness ==
    /\ WriterReturned
    /\ writer.op = "remove"
    /\ writer.returned
    /\ skip_len > 0
    /\ nodes[last_key_value].key < writer.key
    /\ first_key_value # Null

\* the keys a search may be given: those of the map, one below, one above
SearchKeys == 0..NumSkipKeys + 1
\* the first node of a chain with a key at or above `key`, Null without one
FirstAtOrAbove(nds, chain, key) ==
    LET at == {i \in 1..Len(chain) : nds[chain[i]].key >= key}
    IN  IF at = {} THEN Null ELSE chain[MinOf(at)]
\* the last node of a chain with a key below `key`, the head without one
LastBelow(nds, chain, key) ==
    LET below == {i \in 1..Len(chain) : nds[chain[i]].key < key}
    IN  IF below = {} THEN HeadNode
        ELSE chain[CHOOSE i \in below : \A j \in below : j <= i]
InsertHasSearched == writer.pc = "set_next" /\ writer.i = 0

\* C25: between the calls of the writer find_first_ge(key, prevs) returns
\* the first node of the level-0 chain whose key is at or above key, null
\* without one, and fills prevs[L], for every L up to cur_max_level, with
\* the last node of level L whose key is below key, the head without one;
\* the search an insert has just made gave it exactly these for the chains
\* it found.
C25_FindFirstGeAndPrevs ==
    /\ WriterReturned =>
          \A key \in SearchKeys :
              LET found == find_first_ge(nodes, cur_max_level, key)
              IN  /\ found.node = FirstAtOrAbove(nodes, Chain(0), key)
                  /\ \A l \in 0..cur_max_level :
                        found.prev_nodes[l] = LastBelow(nodes, Chain(l), key)
    /\ InsertHasSearched =>
          /\ writer.succ[0] = FirstAtOrAbove(nodes, writer.before[0], writer.key)
          /\ \A l \in 0..cur_max_level :
                writer.prev_nodes[l] = LastBelow(nodes, writer.before[l], writer.key)
\* an insert has searched a map of two levels: a node of a smaller key
\* before it at level 0, the head before it at the top level, and a node
\* at or above its key returned
C25_Witness ==
    /\ InsertHasSearched
    /\ Len(writer.before[MAX_LEVEL]) > 0
    /\ writer.prev_nodes[0] # HeadNode
    /\ writer.prev_nodes[MAX_LEVEL] = HeadNode
    /\ writer.succ[0] # Null
    /\ writer.succ[0] = find_first_ge(nodes, cur_max_level, writer.key).node

MaxOf(S) == CHOOSE x \in S : \A y \in S : y <= x
\* the greatest level of the nodes now in the map, 0 for the empty map
GreatestLevelInUse ==
    MaxOf({nodes[n].level : n \in Range(Chain(0))} \cup {0})
\* the greatest level of the nodes inserted so far, dropped ones included
GreatestLevelInserted ==
    MaxOf({nodes[n].level : n \in {a \in NodeAddrs \ {HeadNode} :
                                       nodes[a].alloc # "unused"}} \cup {0})

\* C34 as stated: between the calls of the writer cur_max_level is the
\* greatest level at which a node exists, and it never decreases.
C34_CurMaxLevelIsGreatestLevelInUse ==
    /\ [](WriterReturned => cur_max_level = GreatestLevelInUse)
    /\ [][cur_max_level' >= cur_max_level]_vars
\* C34 amended: between the calls of the writer cur_max_level is the
\* greatest level of any node inserted so far, hence at least the greatest
\* level at which a node exists and equal to it while no node has been
\* removed, and it never decreases.
C34_CurMaxLevelIsGreatestLevelInserted ==
    /\ [](WriterReturned =>
            /\ cur_max_level = GreatestLevelInserted
            /\ cur_max_level >= GreatestLevelInUse
            /\ (\A n \in NodeAddrs : nodes[n].alloc # "freed")
                  => cur_max_level = GreatestLevelInUse)
    /\ [][cur_max_level' >= cur_max_level]_vars
\* a remove has taken the only node of the top level and left a node of
\* level 0: cur_max_level stays at the top level
C34_Witness ==
    /\ WriterReturned
    /\ writer.op = "remove"
    /\ writer.returned
    /\ skip_len > 0
    /\ GreatestLevelInUse = 0
    /\ cur_max_level = MAX_LEVEL

(***************************************************************************)
(* The memtables (memory/btree_mem_table.rs, memory/skip_map_mem_table.rs) *)
(* under one writer.  Both tables are given the same commands.  A result   *)
(* Ok(None) is NoValue, Ok(Some(v)) is v, and the empty value is Tombstone.*)
(***************************************************************************)
MemKeys == 1..NumMemKeys
MemValues == 1..NumMemValues

NoRemove == [key |-> 0, never_set |-> FALSE, held_value |-> FALSE,
             btree |-> "none", skipmap |-> "none"]
NoMemCall == [op |-> "none", kvs |-> <<>>]
\* None as the result of first_key and last_key
NoKey == 0

\* the batches handed to merge: maps of at most MaxMergeLen entries, in
\* ascending key order; the empty value stands for a remove
MemBatches ==
    {kvs \in UNION {[1..n -> [key : MemKeys, value : MemValues \cup {Tombstone}]] :
                        n \in 0..MaxMergeLen} :
        \A i \in 1..Len(kvs) - 1 : kvs[i].key < kvs[i + 1].key}

InitMem ==
    /\ btree_inner = [k \in {} |-> 0]
    /\ skipmap_inner = <<>>
    /\ mem_latest = [k \in MemKeys |-> NoValue]
    /\ mem_ever_set = {}
    /\ last_remove = NoRemove
    /\ mem_call = NoMemCall

\* BTreeMap::insert
BTreeMap_insert(map, key, value) ==
    [k \in DOMAIN map \cup {key} |-> IF k = key THEN value ELSE map[k]]

\* BTreeMemTable::get: self.inner.get(key).cloned()
BTreeMemTable_get(key) ==
    IF key \in DOMAIN btree_inner THEN btree_inner[key] ELSE NoValue

\* SkipMap::insert returns whether the key was in the map
SkipMap_has_key(map, key) == \E i \in DOMAIN map : map[i].key = key

\* SkipMap::find_first_ge: the position of the first entry with a key at
\* or above key, 0 for the null pointer
SkipMap_find_first_ge(map, key) ==
    LET ge == {i \in DOMAIN map : map[i].key >= key}
    IN  IF ge = {} THEN 0 ELSE MinOf(ge)

\* variant of get that does not compare the key of the node found
SkipMapMemTable_get_nearest(key) ==
    LET node == SkipMap_find_first_ge(skipmap_inner, key)
    IN  IF node = 0 THEN NoValue
        ELSE skipmap_inner[node].value

\* SkipMapMemTable::get
SkipMapMemTable_get(key) ==
    LET node == SkipMap_find_first_ge(skipmap_inner, key)
    IN  IF node = 0 THEN NoValue
        ELSE IF skipmap_inner[node].key = key THEN skipmap_inner[node].value
        ELSE NoValue

\* BTreeMemTable::len
BTreeMemTable_len == Cardinality(DOMAIN btree_inner)

RECURSIVE BTreeMap_iter(_)
\* BTreeMap::iter: the entries in ascending key order
BTreeMap_iter(map) ==
    IF DOMAIN map = {} THEN <<>>
    ELSE LET k == MinOf(DOMAIN map)
         IN  <<[key |-> k, value |-> map[k]]>>
                 \o BTreeMap_iter([j \in DOMAIN map \ {k} |-> map[j]])

\* BTreeMemTable::kv_iter
BTreeMemTable_kv_iter == BTreeMap_iter(btree_inner)

\* BTreeMemTable::first_key
BTreeMemTable_first_key ==
    IF DOMAIN btree_inner = {} THEN NoKey ELSE MinOf(DOMAIN btree_inner)

\* BTreeMemTable::last_key
BTreeMemTable_last_key ==
    IF DOMAIN btree_inner = {} THEN NoKey ELSE MaxOf(DOMAIN btree_inner)

\* SkipMapMemTable::len
SkipMapMemTable_len == Len(skipmap_inner)

\* SkipMapMemTable::kv_iter
SkipMapMemTable_kv_iter == skipmap_inner

\* SkipMapMemTable::first_key
SkipMapMemTable_first_key ==
    IF skipmap_inner = <<>> THEN NoKey ELSE skipmap_inner[1].key

\* SkipMapMemTable::last_key
SkipMapMemTable_last_key ==
    IF skipmap_inner = <<>> THEN NoKey ELSE skipmap_inner[Len(skipmap_inner)].key

RECURSIVE BTreeMap_extend_vacant(_, _)
\* variant of extend that leaves the keys it finds in the map as they are
BTreeMap_extend_vacant(map, kvs) ==
    IF kvs = <<>> THEN map
    ELSE BTreeMap_extend_vacant(
             IF Head(kvs).key \in DOMAIN map THEN map
             ELSE BTreeMap_insert(map, Head(kvs).key, Head(kvs).value),
             Tail(kvs))

RECURSIVE BTreeMap_extend(_, _)
\* BTreeMap::extend: insert of each entry of the iterator in turn
BTreeMap_extend(map, kvs) ==
    IF kvs = <<>> THEN map
    ELSE BTreeMap_extend(BTreeMap_insert(map, Head(kvs).key, Head(kvs).value),
                         Tail(kvs))

\* MemTable::merge of SkipMapMemTable: the union with the batch, the batch's
\* value taken for a key in both
SkipMapMemTable_merge(map, kvs) == SkipMap_insert_all(map, kvs)

\* set(key, value) on both tables
MemTable_set(key, value) ==
    /\ btree_inner' = BTreeMap_insert(btree_inner, key, value)
    /\ skipmap_inner' = SkipMap_insert(skipmap_inner, [key |-> key, value |-> value])
    /\ mem_latest' = [mem_latest EXCEPT ![key] = value]
    /\ mem_ever_set' = mem_ever_set \cup {key}
    /\ mem_call' = [op |-> "set", kvs |-> <<[key |-> key, value |-> value]>>]
    /\ UNCHANGED last_remove

\* what BTreeMemTable::remove returns
BTreeMemTable_remove_result(key) == "Ok"
\* what SkipMapMemTable::remove returns: Ok if insert found the key
SkipMapMemTable_remove_result(key) ==
    IF SkipMap_has_key(skipmap_inner, key) THEN "Ok" ELSE "KeyNotFound"

\* remove(key) on both tables: each inserts the empty value
MemTable_remove(key) ==
    /\ btree_inner' = BTreeMap_insert(btree_inner, key, Tombstone)
    /\ skipmap_inner' = SkipMap_insert(skipmap_inner, [key |-> key, value |-> Tombstone])
    /\ mem_latest' = [mem_latest EXCEPT ![key] = NoValue]
    /\ last_remove' = [key |-> key,
                       never_set |-> key \notin mem_ever_set,
                       held_value |-> mem_latest[key] # NoValue,
                       btree |-> BTreeMemTable_remove_result(key),
                       skipmap |-> SkipMapMemTable_remove_result(key)]
    /\ mem_call' = [op |-> "remove", kvs |-> <<[key |-> key, value |-> Tombstone]>>]
    /\ UNCHANGED mem_ever_set

\* merge(kvs) on both tables
MemTable_merge(kvs) ==
    /\ btree_inner' = BTreeMap_extend(btree_inner, kvs)
    /\ skipmap_inner' = SkipMapMemTable_merge(skipmap_inner, kvs)
    /\ mem_latest' = [k \in MemKeys |->
                         IF \E i \in 1..Len(kvs) : kvs[i].key = k
                         THEN ReadOf((CHOOSE e \in Range(kvs) : e.key = k).value)
                         ELSE mem_latest[k]]
    /\ mem_ever_set' = mem_ever_set \cup
                          {e.key : e \in {x \in Range(kvs) : x.value # Tombstone}}
    /\ mem_call' = [op |-> "merge", kvs |-> kvs]
    /\ UNCHANGED last_remove

NextMem ==
    \/ \E k \in MemKeys, v \in MemValues : MemTable_set(k, v)
    \/ \E k \in MemKeys : MemTable_remove(k)
    \/ \E kvs \in MemBatches : MemTable_merge(kvs)

(***************************************************************************)
(* Properties of the memtables.                                            *)
(***************************************************************************)
\* C16: get(k) returns the value of the most recent set(k, v) if no
\* remove(k) followed it, and None otherwise, on both memtables.
C16_GetReturnsLatestSetOrNone ==
    \A k \in MemKeys :
        /\ BTreeMemTable_get(k) = mem_latest[k]
        /\ SkipMapMemTable_get(k) = mem_latest[k]

\* C17: a remove of a key that was never set returns KeyNotFound and a
\* remove of a key that holds a value returns Ok, on both memtables.
C17_RemoveFailsOnlyOnMissingKey ==
    /\ last_remove.never_set =>
          (last_remove.btree = "KeyNotFound" /\ last_remove.skipmap = "KeyNotFound")
    /\ last_remove.held_value =>
          (last_remove.btree = "Ok" /\ last_remove.skipmap = "Ok")

\* the keys along an iteration
IterKeys(it) == [i \in 1..Len(it) |-> it[i].key]
\* the keys the last command wrote
CallKeys(call) == {e.key : e \in Range(call.kvs)}
\* the value the last command wrote for key k
CallValue(call, k) == (CHOOSE e \in Range(call.kvs) : e.key = k).value

\* what a command does to get, len and the order of the keys
MemCallEffect ==
    /\ \A k \in MemKeys :
          IF k \in CallKeys(mem_call')
          THEN /\ BTreeMemTable_get(k)' = CallValue(mem_call', k)
               /\ SkipMapMemTable_get(k)' = CallValue(mem_call', k)
          ELSE /\ BTreeMemTable_get(k)' = BTreeMemTable_get(k)
               /\ SkipMapMemTable_get(k)' = SkipMapMemTable_get(k)
    /\ (/\ mem_call'.op \in {"set", "remove"}
        /\ CallKeys(mem_call') \subseteq DOMAIN btree_inner)
          => (/\ BTreeMemTable_len' = BTreeMemTable_len
              /\ IterKeys(BTreeMemTable_kv_iter') = IterKeys(BTreeMemTable_kv_iter))
    /\ (/\ mem_call'.op \in {"set", "remove"}
        /\ CallKeys(mem_call') \subseteq Range(IterKeys(skipmap_inner)))
          => (/\ SkipMapMemTable_len' = SkipMapMemTable_len
              /\ IterKeys(SkipMapMemTable_kv_iter') = IterKeys(SkipMapMemTable_kv_iter))
\* no key twice in an iteration
DistinctKeys(it) == \A i, j \in 1..Len(it) : i # j => it[i].key # it[j].key

\* C36: each memtable holds at most one entry per key.  A set or a remove
\* of a key that is in the table leaves len and the order of the keys as
\* they were, and get of the key then returns the value written (the empty
\* value for a remove).  After merge(batch) get returns the batch's value
\* for every key of the batch and what it returned before for every other
\* key.
C36_OneEntryPerKeyAndMergeTakesBatchValues ==
    /\ [](/\ DistinctKeys(SkipMapMemTable_kv_iter)
          /\ DistinctKeys(BTreeMemTable_kv_iter)
          /\ SkipMapMemTable_len = Len(SkipMapMemTable_kv_iter)
          /\ BTreeMemTable_len = Len(BTreeMemTable_kv_iter))
    /\ [][MemCallEffect]_vars
\* a merge of two entries has put the empty value in the place of a value
\* set before and added a key
C36_Witness ==
    /\ mem_call.op = "merge"
    /\ Len(mem_call.kvs) = 2
    /\ mem_call.kvs[1].value = Tombstone
    /\ mem_call.kvs[1].key \in mem_ever_set
    /\ mem_call.kvs[2].key \notin mem_ever_set
    /\ mem_call.kvs[2].value = Tombstone
    /\ BTreeMemTable_len = 3
\* a set of a key that a remove left in the table
C36_SetWitness ==
    /\ mem_call.op = "set"
    /\ last_remove.key \in CallKeys(mem_call)
    /\ mem_ever_set = CallKeys(mem_call)
    /\ last_remove.never_set
    /\ BTreeMemTable_len = 1

\* C37: after every sequence of set, remove and merge given to both,
\* BTreeMemTable and SkipMapMemTable return the same for get of every key,
\* len, first_key, last_key and the iteration.
C37_MemTablesAgree ==
    /\ \A k \in MemKeys : BTreeMemTable_get(k) = SkipMapMemTable_get(k)
    /\ BTreeMemTable_len = SkipMapMemTable_len
    /\ BTreeMemTable_first_key = SkipMapMemTable_first_key
    /\ BTreeMemTable_last_key = SkipMapMemTable_last_key
    /\ BTreeMemTable_kv_iter = SkipMapMemTable_kv_iter
\* after a set, a remove and a merge the tables hold two keys, one of them
\* removed, and the least key is in neither
C37_Witness ==
    /\ mem_call.op = "merge"
    /\ Len(mem_call.kvs) = MaxMergeLen
    /\ last_remove.held_value
    /\ BTreeMemTable_len = 2
    /\ BTreeMemTable_first_key > 1
    /\ \E k \in MemKeys : BTreeMemTable_get(k) = Tombstone
    /\ \E k \in MemKeys : BTreeMemTable_get(k) \in MemValues

\* C38: a SkipMapMemTable::remove that returns KeyNotFound leaves len, the
\* iteration and get of every key as they were before the call.
C38_KeyNotFoundLeavesMemTableUnchanged ==
    [][(mem_call'.op = "remove" /\ last_remove'.skipmap = "KeyNotFound")
          => /\ SkipMapMemTable_len' = SkipMapMemTable_len
             /\ SkipMapMemTable_kv_iter' = SkipMapMemTable_kv_iter
             /\ \A k \in MemKeys : SkipMapMemTable_get(k)' = SkipMapMemTable_get(k)
      ]_vars

(***************************************************************************)
(* The table index (sstable/index_block.rs).  An index is the list of its  *)
(* blocks (offset, length, max key) in ascending order of max key; blocks  *)
(* are laid out one after the other.                                       *)
(***************************************************************************)
IndexKeys == 1..NumIndexKeys

RECURSIVE IndexOf(_, _, _)
\* the index whose blocks end at the keys of max_keys above key k; the
\* blocks before hold `offset` entries
IndexOf(max_keys, k, offset) ==
    IF k > NumIndexKeys THEN <<>>
    ELSE IF k \in max_keys
         THEN <<[offset |-> offset, length |-> k - offset, max_key |-> k]>>
                  \o IndexOf(max_keys, k + 1, k)
         ELSE IndexOf(max_keys, k + 1, offset)

\* no table loaded
InitIndexIdle ==
    /\ indexes = <<>>
    /\ index_key = 1
    /\ index_result = <<>>
    /\ index_pc = "ready"

\* any index over the keys, and any key to look up
InitIndex ==
    /\ indexes \in {IndexOf(max_keys, 1, 0) : max_keys \in SUBSET IndexKeys}
    /\ index_key \in IndexKeys
    /\ index_result = <<>>
    /\ index_pc = "ready"

\* slice::binary_search_by over distinct ascending max keys, counted from 0:
\* Ok(i) where block i has the key, else Err(i) where i blocks are below it
binary_search_by(idx, key) ==
    Cardinality({j \in DOMAIN idx : idx[j].max_key < key})

\* SSTableIndex::binary_search; indexes.get(i) counts from 0
binary_search(idx, key) ==
    LET i == binary_search_by(idx, key)
    IN  IF i > 0
        THEN IF i + 1 \in DOMAIN idx
             THEN <<idx[i + 1].offset, idx[i + 1].length>>
             ELSE <<>>
        ELSE <<>>

may_contain_key ==
    /\ index_pc = "ready"
    /\ index_result' = binary_search(indexes, index_key)
    /\ index_pc' = "done"
    /\ UNCHANGED <<indexes, index_key>>

NextIndex == may_contain_key

(***************************************************************************)
(* Properties of the table index.                                          *)
(***************************************************************************)
\* the blocks whose max key is at or above the key looked up
BlocksAtOrAbove == {j \in DOMAIN indexes : indexes[j].max_key >= index_key}
FirstBlockAtOrAbove == indexes[MinOf(BlocksAtOrAbove)]

\* C20: may_contain_key returns the (offset, length) of the first block
\* whose max key is at or above the key, the first block included, and
\* None only when the key is above every block's max key.
C20_LookupReturnsFirstBlockAtOrAbove ==
    index_pc = "done" =>
        index_result = IF BlocksAtOrAbove = {} THEN <<>>
                       ELSE <<FirstBlockAtOrAbove.offset, FirstBlockAtOrAbove.length>>

\* the same, for the keys above the first block's max key
LookupBeyondFirstBlockReturnsFirstAtOrAbove ==
    (index_pc = "done" /\ indexes # <<>> /\ index_key > indexes[1].max_key) =>
        index_result = IF BlocksAtOrAbove = {} THEN <<>>
                       ELSE <<FirstBlockAtOrAbove.offset, FirstBlockAtOrAbove.length>>

Init ==
    InitTxn /\ InitCache /\ InitCalls /\ InitCompactIdle /\ InitSkip /\ InitMem /\ InitIndexIdle

Next == NextTxn /\ UNCHANGED <<callVars, cacheVars, compactVars, skipVars, memVars, indexVars>>

Spec == Init /\ [][Next]_vars

SpecDirect ==
    Init /\ [][NextDirect
                /\ UNCHANGED <<callVars, cacheVars, compactVars, skipVars, memVars, indexVars>>]_vars

SpecCache ==
    Init /\ [][NextCache
                /\ UNCHANGED <<callVars, txnVars, compactVars, skipVars, memVars, indexVars>>]_vars

SpecBatch ==
    Init /\ [][NextBatch /\ UNCHANGED last_call
                /\ UNCHANGED <<cacheVars, compactVars, skipVars, memVars, indexVars>>]_vars

SpecWal ==
    Init /\ [][NextWal
                /\ UNCHANGED <<callVars, cacheVars, compactVars, skipVars, memVars, indexVars>>]_vars

SpecCacheCalls ==
    Init /\ [][NextCacheCalls
                /\ UNCHANGED <<txnVars, compactVars, skipVars, memVars, indexVars>>]_vars

\* a compaction requested on any of the bounded inputs
InitCompaction ==
    InitTxn /\ InitCache /\ InitCalls /\ InitCompact /\ InitSkip /\ InitMem /\ InitIndexIdle

SpecCompact ==
    InitCompaction
        /\ [][NextCompact
                /\ UNCHANGED <<callVars, txnVars, cacheVars, skipVars, memVars, indexVars>>]_vars

SpecSkipInsert ==
    Init /\ [][NextSkipInsert
                /\ UNCHANGED <<callVars, txnVars, cacheVars, compactVars, memVars, indexVars>>]_vars

SpecSkip ==
    Init /\ [][NextSkip
                /\ UNCHANGED <<callVars, txnVars, cacheVars, compactVars, memVars, indexVars>>]_vars

SpecMem ==
    Init /\ [][NextMem
                /\ UNCHANGED <<callVars, txnVars, cacheVars, compactVars, skipVars, indexVars>>]_vars

SpecSkipWriter ==
    Init /\ [][NextSkipWriter
                /\ UNCHANGED <<callVars, txnVars, cacheVars, compactVars, memVars, indexVars>>]_vars

\* a lookup requested on any of the bounded indexes
InitLookup ==
    InitTxn /\ InitCache /\ InitCalls /\ InitCompactIdle /\ InitSkip /\ InitMem /\ InitIndex

SpecIndex ==
    InitLookup
        /\ [][NextIndex
                /\ UNCHANGED <<callVars, txnVars, cacheVars, compactVars, skipVars, memVars>>]_vars

====
